---- MODULE Spec2Model ----
(***************************************************************************)
(* Model of ttnn/cpp/ttnn/tensor/tensor_utils.cpp: the borrowed-to-owned   *)
(* copy made before a tensor is handed to an asynchronous worker, the      *)
(* reshape dimension inference, the shard division geometry and the        *)
(* per-shard transform/apply helpers.                                      *)
(***************************************************************************)
EXTENDS Integers, Sequences, FiniteSets, TLC

\* ------------------------------------------------------------------ bounds
MaxLen == 2        \* longest host buffer drawn
MaxWrites == 2     \* writes the caller makes to its own memory
MaxShardsToBePopulated == 2   \* largest num_shards_to_be_populated drawn
MaxVolume == 6     \* largest logical volume of the tensor being reshaped
MaxRank == 3       \* longest requested shape
MaxDim == 3        \* largest requested dimension
MaxNegDim == 2     \* requested dimensions go down to -MaxNegDim
MaxShapeDim == 6   \* largest small height or width drawn
MaxShardDim == 4   \* largest small shard height or width drawn
MaxShards == 3     \* most shards of a multi-device tensor
NumDevices == 3    \* devices a shard can live on
MaxWeightDim == 2  \* largest small dimension of a weight or bias tensor
MaxWeightVolume == 64  \* most elements of a weight tensor drawn
MaxBlock == 2      \* largest in1_block_h, in1_block_w, act_block_h_ntiles
MaxChannelShards == 2  \* largest num_channel_shards
MaxGroups == 2     \* largest num_groups
MaxHostShards == 2 \* shards of a multi-device weight tensor
MaxInserts == 2    \* calls of insert_buffer_and_shape_for_device on one tensor

\* ------------------------------------------------------------ vocabularies
StorageTypes == {"OWNED", "DEVICE", "BORROWED", "MULTI_DEVICE", "MULTI_DEVICE_HOST"}
WorkExecutorModes == {"SYNCHRONOUS", "ASYNCHRONOUS"}
ElemValues == {0, 1}
ElemTypes == {"float", "uint32_t"}
TensorSpecs ==
    { [shape |-> <<1, 2>>, dtype |-> "FLOAT32", layout |-> "ROW_MAJOR"],
      [shape |-> <<2, 1>>, dtype |-> "UINT32", layout |-> "TILE"] }

SeqsUpTo(S, n) == UNION { [1..k -> S] : k \in 0..n }

\* A buffer is a typed vector of elements (the alternative held by the
\* buffer variant, and its elements).
Buffers == { [etype |-> e, data |-> d] : e \in ElemTypes, d \in SeqsUpTo(ElemValues, MaxLen) }

NoTensor == [storage |-> "NONE"]

VARIABLES
    heap,        \* host memory: buffer id -> buffer; grows on allocation
    worker_mode, \* worker->get_worker_mode()
    tensor,      \* the tensor given to copy_borrowed_tensor_in_async_mode
    passed,      \* the tensor it returned, which is handed to the worker
    at_call,     \* contents of the input tensor's buffer when the copy was called
    queue,       \* operations enqueued on the worker, each holding its tensor
    worker_read, \* what the worker read from the tensor of the executed operation
    writes,      \* writes the caller has made to its memory
    pc           \* caller/worker position

borrow_vars == <<heap, worker_mode, tensor, passed, at_call, queue, worker_read, writes, pc>>

VARIABLES
    rs_old_volume, \* tensor.get_logical_volume() of the tensor being reshaped
    rs_shape,      \* the requested shape, int32_t values
    rs_result,     \* what infer_dims_for_reshape returned or threw
    rs_pc

reshape_vars == <<rs_old_volume, rs_shape, rs_result, rs_pc>>

VARIABLES
    sd_simple_shape, \* the ttnn::SimpleShape handed to get_2d_shape
    sd_shape,       \* Size{height, width} of the 2D shape
    sd_shard_shape, \* Size{height, width} of one shard
    sd_result,      \* the ShardDivisionSpec returned
    sd_pc

shard_vars == <<sd_simple_shape, sd_shape, sd_shard_shape, sd_result, sd_pc>>

VARIABLES
    tf_tensor,   \* the tensor given to transform or apply
    tf_fn,       \* the per-shard function, as a map on shard contents
    tf_op,       \* "transform" or "apply"
    tf_inputs,   \* input_tensors
    tf_outputs,  \* output_tensors
    tf_calls,    \* the shard positions the function was called on, in call order
    tf_result,   \* the tensor transform returned
    tf_pc

transform_vars == <<tf_tensor, tf_fn, tf_op, tf_inputs, tf_outputs, tf_calls, tf_result, tf_pc>>

VARIABLES
    cv_op,           \* the conversion called
    cv_tensor,       \* the weight or bias tensor given to it
    cv_params,       \* in1_block_h, in1_block_w, num_channel_shards, num_groups, act_block_h_ntiles
    cv_output_dtype, \* std::optional<DataType> output_dtype
    cv_matrix,       \* output_buffer and output_shape of each run of the repack routine
    cv_trace,        \* the steps the conversion went through, in order
    cv_result,       \* the tensor returned, or the failure raised
    cv_pc

convert_vars ==
    <<cv_op, cv_tensor, cv_params, cv_output_dtype, cv_matrix, cv_trace, cv_result, cv_pc>>

VARIABLES
    st_tensor,    \* the tensor inserted into or asked about
    st_prev,      \* that tensor before the last call
    st_op,        \* the last call and its arguments
    st_result,    \* what the last call returned or threw
    st_inserted,  \* the arguments of the last insert that went through
    st_inserts,   \* inserts called so far
    st_pc

storage_vars == <<st_tensor, st_prev, st_op, st_result, st_inserted, st_inserts, st_pc>>

vars == <<borrow_vars, reshape_vars, shard_vars, transform_vars, convert_vars,
          storage_vars>>

BorrowFrame ==
    UNCHANGED <<reshape_vars, shard_vars, transform_vars, convert_vars, storage_vars>>
ReshapeFrame ==
    UNCHANGED <<borrow_vars, shard_vars, transform_vars, convert_vars, storage_vars>>
ShardFrame ==
    UNCHANGED <<borrow_vars, reshape_vars, transform_vars, convert_vars, storage_vars>>
TransformFrame ==
    UNCHANGED <<borrow_vars, reshape_vars, shard_vars, convert_vars, storage_vars>>
ConvertFrame ==
    UNCHANGED <<borrow_vars, reshape_vars, shard_vars, transform_vars, storage_vars>>
StorageFrame ==
    UNCHANGED <<borrow_vars, reshape_vars, shard_vars, transform_vars, convert_vars>>

\* ------------------------------------------- copy_borrowed_tensor_in_async_mode
\* Variant: the range copied stops one element short.
OwnedBufferFromRange_DropsLast(buffer) ==
    [etype |-> buffer.etype,
     data |-> SubSeq(buffer.data, 1, Len(buffer.data) - 1)]

\* owned_buffer::create(BorrowedStorageType(buffer.begin(), buffer.end())):
\* a new vector of the same element type, built from the elements in order.
OwnedBufferFromRange(buffer) ==
    [etype |-> buffer.etype,
     data |-> [i \in 1..Len(buffer.data) |-> buffer.data[i]]]

\* Variant: only the worker mode is tested.
SkipsBorrowedCheck_ModeOnly(mode, t) == mode = "SYNCHRONOUS"

\* The early return: nothing is checked about the storage.
SkipsBorrowedCheck(mode, t) ==
    mode = "SYNCHRONOUS" \/ t.num_shards_to_be_populated > 1

\* Variant: the owned tensor wraps the borrowed memory instead of a copy of it.
copy_borrowed_tensor_in_async_mode_Aliasing(mode, t, h) ==
    IF SkipsBorrowedCheck(mode, t) \/ t.storage # "BORROWED"
    THEN [tensor |-> t, heap |-> h]
    ELSE [tensor |-> [t EXCEPT !.storage = "OWNED"], heap |-> h]

\* Variant: the elements are moved out of the borrowed memory, which is left
\* empty.
copy_borrowed_tensor_in_async_mode_MovesFrom(mode, t, h) ==
    IF SkipsBorrowedCheck(mode, t) \/ t.storage # "BORROWED"
    THEN [tensor |-> t, heap |-> h]
    ELSE [tensor |-> [storage |-> "OWNED",
                      buffer |-> Len(h) + 1,
                      spec |-> t.spec,
                      num_shards_to_be_populated |-> 1],
          heap |-> Append([h EXCEPT ![t.buffer].data = <<>>],
                          OwnedBufferFromRange(h[t.buffer]))]

\* Returns the tensor handed back and the host memory after the call.
copy_borrowed_tensor_in_async_mode(mode, t, h) ==
    IF SkipsBorrowedCheck(mode, t)
    THEN [tensor |-> t, heap |-> h]
    ELSE IF t.storage = "BORROWED"
         THEN LET owned_buf == Len(h) + 1
              IN [tensor |-> [storage |-> "OWNED",
                              buffer |-> owned_buf,
                              spec |-> t.spec,
                              num_shards_to_be_populated |-> 1],
                  heap |-> Append(h, OwnedBufferFromRange(h[t.buffer]))]
         ELSE [tensor |-> t, heap |-> h]

\* ----------------------------------------------------- caller, queue and worker
\* The caller: obtains the tensor to hand over, then enqueues the operation.
BorrowInit ==
    /\ worker_mode \in WorkExecutorModes
    /\ \E b \in Buffers : heap = <<b>>
    /\ \E st \in StorageTypes, sp \in TensorSpecs, n \in 0..MaxShardsToBePopulated :
          tensor = [storage |-> st, buffer |-> 1, spec |-> sp,
                    num_shards_to_be_populated |-> n]
    /\ passed = NoTensor
    /\ at_call = <<>>
    /\ queue = <<>>
    /\ worker_read = <<>>
    /\ writes = 0
    /\ pc = "start"

CopyBorrowed ==
    /\ pc = "start"
    /\ LET r == copy_borrowed_tensor_in_async_mode(worker_mode, tensor, heap)
       IN /\ passed' = r.tensor
          /\ heap' = r.heap
    /\ at_call' = heap[tensor.buffer].data
    /\ pc' = "copied"
    /\ UNCHANGED <<worker_mode, tensor, queue, worker_read, writes>>
    /\ BorrowFrame

BorrowIdle ==
    /\ worker_mode = "SYNCHRONOUS"
    /\ heap = <<>>
    /\ tensor = NoTensor
    /\ passed = NoTensor
    /\ at_call = <<>>
    /\ queue = <<>>
    /\ worker_read = <<>>
    /\ writes = 0
    /\ pc = "idle"

\* What an operation reads when it runs: the elements of its tensor's buffer.
ReadTensor(h, t) == h[t.buffer].data

\* push_work: an asynchronous worker queues the operation and returns; a
\* synchronous worker runs it in the calling thread before returning.
Enqueue ==
    /\ pc = "copied"
    /\ IF worker_mode = "ASYNCHRONOUS"
       THEN /\ queue' = Append(queue, passed)
            /\ pc' = "enqueued"
            /\ UNCHANGED worker_read
       ELSE /\ worker_read' = ReadTensor(heap, passed)
            /\ pc' = "done"
            /\ UNCHANGED queue
    /\ UNCHANGED <<heap, worker_mode, tensor, passed, at_call, writes>>
    /\ BorrowFrame

\* The worker thread takes the oldest queued operation and runs it.
WorkerExec ==
    /\ pc = "enqueued"
    /\ queue # <<>>
    /\ worker_read' = ReadTensor(heap, Head(queue))
    /\ queue' = Tail(queue)
    /\ pc' = "done"
    /\ UNCHANGED <<heap, worker_mode, tensor, passed, at_call, writes>>
    /\ BorrowFrame

\* Borrowed memory belongs to the caller, who may write to it at any time
\* once copy_borrowed_tensor_in_async_mode has returned.
CallerMutate ==
    /\ pc \in {"copied", "enqueued"}
    /\ tensor.storage = "BORROWED"
    /\ writes < MaxWrites
    /\ \E i \in 1..Len(heap[tensor.buffer].data), v \in ElemValues :
          /\ v # heap[tensor.buffer].data[i]
          /\ heap' = [heap EXCEPT ![tensor.buffer].data[i] = v]
    /\ writes' = writes + 1
    /\ UNCHANGED <<worker_mode, tensor, passed, at_call, queue, worker_read, pc>>
    /\ BorrowFrame

\* ------------------------------------------------------ infer_dims_for_reshape
\* The result shape is a SmallVector<uint32_t>.  A uint32_t is kept as its two
\* 16-bit halves, value = hi * 2^16 + lo, so that every value of the type is
\* representable.
Half == 65536

\* Conversion of a signed integer to uint32_t: reduction modulo 2^32.
ToUint32(x) == [hi |-> (x \div Half) % Half, lo |-> x % Half]

Abs(x) == IF x < 0 THEN -x ELSE x

\* C++ integer division and remainder truncate toward zero (b # 0).
CppDiv(a, b) ==
    IF (a < 0) = (b < 0) THEN Abs(a) \div Abs(b) ELSE -(Abs(a) \div Abs(b))

CppMod(a, b) == a - b * CppDiv(a, b)

MoreThanOneMinus1 == "Shape cannot have more than 1 elements that is set to -1!"
AmbiguousMinus1 == "cannot reshape tensor of 0 elements: -1 can be any value and is ambiguous"
InvalidReshape == "Invalid arguments to reshape"
DivideByZero == "integer division by zero"

Thrown(msg) == [ok |-> FALSE, error |-> msg]
Returned(new_shape) == [ok |-> TRUE, shape |-> new_shape]

\* The locals before the loop over the requested shape.
ScanStart ==
    [new_volume |-> 1, index_of_negative_1 |-> -1, has_zero |-> FALSE, thrown |-> FALSE]

\* Variant: a second -1 replaces the remembered position instead of throwing.
ScanStep_KeepsLastMinus1(st, shape, index) ==
    IF shape[index + 1] = -1
    THEN [st EXCEPT !.index_of_negative_1 = index]
    ELSE [st EXCEPT !.has_zero = @ \/ (shape[index + 1] = 0),
                    !.new_volume = @ * shape[index + 1]]

\* One iteration of the loop, for the 0-based position index.
ScanStep(st, shape, index) ==
    IF shape[index + 1] = -1
    THEN IF st.index_of_negative_1 # -1
         THEN [st EXCEPT !.thrown = TRUE]
         ELSE [st EXCEPT !.index_of_negative_1 = index]
    ELSE [st EXCEPT !.has_zero = @ \/ (shape[index + 1] = 0),
                    !.new_volume = @ * shape[index + 1]]

RECURSIVE ScanShape(_, _, _)
ScanShape(st, shape, index) ==
    IF index >= Len(shape) \/ st.thrown
    THEN st
    ELSE ScanShape(ScanStep(st, shape, index), shape, index + 1)

\* Variant: the comparison with -1 is inverted.
AmbiguousWildcard_Inverted(st) == st.has_zero /\ st.index_of_negative_1 = -1

\* The check made after the loop on a wildcard next to a zero-sized dimension.
AmbiguousWildcard(st) == st.has_zero /\ st.index_of_negative_1 # -1

\* The requested shape copied into the result vector, then the wildcard slot
\* filled.  A division by zero cannot be reached from the checks above; where
\* they are changed it traps.
ResolveShape(old_volume, shape, st) ==
    LET new_shape == [i \in 1..Len(shape) |-> ToUint32(shape[i])]
    IN IF st.index_of_negative_1 = -1
       THEN IF st.new_volume = old_volume
            THEN Returned(new_shape)
            ELSE Thrown(InvalidReshape)
       ELSE IF st.new_volume = 0
            THEN Thrown(DivideByZero)
            ELSE IF CppMod(old_volume, st.new_volume) = 0
                 THEN Returned([new_shape EXCEPT ![st.index_of_negative_1 + 1] =
                                    ToUint32(CppDiv(old_volume, st.new_volume))])
                 ELSE Thrown(InvalidReshape)

infer_dims_for_reshape(old_volume, shape) ==
    LET st == ScanShape(ScanStart, shape, 0)
    IN IF st.thrown
       THEN Thrown(MoreThanOneMinus1)
       ELSE IF AmbiguousWildcard(st)
            THEN Thrown(AmbiguousMinus1)
            ELSE ResolveShape(old_volume, shape, st)

RequestedDims == (0 - MaxNegDim)..MaxDim
RequestedShapes == SeqsUpTo(RequestedDims, MaxRank)

ReshapeInit ==
    /\ rs_old_volume \in 0..MaxVolume
    /\ rs_shape \in RequestedShapes
    /\ rs_result = [ok |-> FALSE, error |-> "not called"]
    /\ rs_pc = "input"

ReshapeIdle ==
    /\ rs_old_volume = 0
    /\ rs_shape = <<>>
    /\ rs_result = [ok |-> FALSE, error |-> "not called"]
    /\ rs_pc = "idle"

InferDims ==
    /\ rs_pc = "input"
    /\ rs_result' = infer_dims_for_reshape(rs_old_volume, rs_shape)
    /\ rs_pc' = "done"
    /\ UNCHANGED <<rs_old_volume, rs_shape>>
    /\ ReshapeFrame

\* ------------------------------------------------- compute_shard_division_spec
\* tt::div_up: the quotient rounded up.
div_up(a, b) == (a + b - 1) \div b

\* Variant: the last shard is the bare remainder.
compute_shard_division_spec_BareRemainder(shape, shard_shape) ==
    [num_shards_height |-> div_up(shape.height, shard_shape.height),
     last_shard_height |-> shape.height % shard_shape.height,
     num_shards_width |-> div_up(shape.width, shard_shape.width),
     last_shard_width |-> shape.width % shard_shape.width]

compute_shard_division_spec(shape, shard_shape) ==
    LET num_shards_height == div_up(shape.height, shard_shape.height)
        last_shard_height ==
            IF shape.height % shard_shape.height > 0
            THEN shape.height % shard_shape.height
            ELSE shard_shape.height
        num_shards_width == div_up(shape.width, shard_shape.width)
        last_shard_width ==
            IF shape.width % shard_shape.width > 0
            THEN shape.width % shard_shape.width
            ELSE shard_shape.width
    IN [num_shards_height |-> num_shards_height,
        last_shard_height |-> last_shard_height,
        num_shards_width |-> num_shards_width,
        last_shard_width |-> last_shard_width]

\* Sizes drawn: every small size, and the sizes 32, 64 and 100.
ShapeDims == (0..MaxShapeDim) \cup {64, 100}
ShardDims == (1..MaxShardDim) \cup {32}
NoDivision == [num_shards_height |-> 0, last_shard_height |-> 0,
               num_shards_width |-> 0, last_shard_width |-> 0]

ShardInit ==
    /\ sd_simple_shape = <<>>
    /\ sd_shape \in [height : ShapeDims, width : ShapeDims]
    /\ sd_shard_shape \in [height : ShardDims, width : ShardDims]
    /\ sd_result = NoDivision
    /\ sd_pc = "input"

ShardIdle ==
    /\ sd_simple_shape = <<>>
    /\ sd_shape = [height |-> 0, width |-> 0]
    /\ sd_shard_shape = [height |-> 1, width |-> 1]
    /\ sd_result = NoDivision
    /\ sd_pc = "idle"

ComputeShardDivision ==
    /\ sd_pc = "input"
    /\ sd_result' = compute_shard_division_spec(sd_shape, sd_shard_shape)
    /\ sd_pc' = "done"
    /\ UNCHANGED <<sd_simple_shape, sd_shape, sd_shard_shape>>
    /\ ShardFrame

\* ----------------------------------------------------------- transform, apply
DeviceIds == 0..(NumDevices - 1)
Strategies == {"ReplicateTensor", "ShardTensor"}
ShardFns == [ElemValues -> ElemValues]

\* Sequences of n distinct device ids.
DeviceOrders(n) ==
    { o \in [1..n -> DeviceIds] : \A i, j \in 1..n : i # j => o[i] # o[j] }

Range(f) == { f[x] : x \in DOMAIN f }

\* A multi-device tensor: per-device buffers listed by ordered_device_ids, or
\* host buffers listed by position.
MultiDeviceTensors ==
    UNION { { [storage |-> "MULTI_DEVICE", ordered_device_ids |-> o,
                buffers |-> b, strategy |-> g] :
                  b \in [Range(o) -> ElemValues], g \in Strategies }
            : o \in UNION { DeviceOrders(n) : n \in 1..MaxShards } }

MultiDeviceHostTensors ==
    UNION { { [storage |-> "MULTI_DEVICE_HOST", ordered_device_ids |-> <<>>,
                buffers |-> b, strategy |-> g] :
                  b \in [1..n -> ElemValues], g \in Strategies }
            : n \in 1..MaxShards }

\* A tensor that is not a multi-device tensor: one buffer, on the host or on
\* one device, and no distribution strategy of its own.
SingleStorageTypes == {"OWNED", "BORROWED", "DEVICE"}
SingleTensors ==
    { [storage |-> st, ordered_device_ids |-> <<>>, buffers |-> <<v>>,
       strategy |-> "none"] : st \in {"OWNED", "BORROWED"}, v \in ElemValues }
    \cup
    { [storage |-> "DEVICE", ordered_device_ids |-> <<d>>, buffers |-> <<v>>,
       strategy |-> "none"] : d \in DeviceIds, v \in ElemValues }

NoShard == [storage |-> "NONE", device |-> -1, data |-> -1]

\* One Tensor per shard, in the storage's order.
get_tensors_from_multi_device_storage(t) ==
    IF t.storage = "MULTI_DEVICE"
    THEN [i \in 1..Len(t.ordered_device_ids) |->
            [storage |-> "DEVICE", device |-> t.ordered_device_ids[i],
             data |-> t.buffers[t.ordered_device_ids[i]]]]
    ELSE IF t.storage = "MULTI_DEVICE_HOST"
         THEN [i \in 1..Len(t.buffers) |->
                 [storage |-> "OWNED", device |-> -1, data |-> t.buffers[i]]]
         ELSE << [storage |-> t.storage,
                  device |-> IF t.storage = "DEVICE" THEN t.ordered_device_ids[1] ELSE -1,
                  data |-> t.buffers[1]] >>

get_distributed_tensor_config_from_tensor(t) == t.strategy

\* The tensors reassembled, in the order given, into one tensor of storage_type.
create_multi_device_tensor(tensors, storage_type, strategy) ==
    IF storage_type = "MULTI_DEVICE"
    THEN LET ids == [i \in 1..Len(tensors) |-> tensors[i].device]
         IN [storage |-> "MULTI_DEVICE",
             ordered_device_ids |-> ids,
             buffers |-> [d \in Range(ids) |->
                            tensors[CHOOSE i \in 1..Len(tensors) : tensors[i].device = d].data],
             strategy |-> strategy]
    ELSE IF storage_type = "MULTI_DEVICE_HOST"
         THEN [storage |-> "MULTI_DEVICE_HOST",
               ordered_device_ids |-> <<>>,
               buffers |-> [i \in 1..Len(tensors) |-> tensors[i].data],
               strategy |-> strategy]
         ELSE [storage |-> tensors[1].storage,
               ordered_device_ids |->
                   IF tensors[1].device = -1 THEN <<>> ELSE <<tensors[1].device>>,
               buffers |-> <<tensors[1].data>>,
               strategy |-> strategy]

\* The per-shard function: a new tensor on the same device with mapped contents.
CallFn(fn, shard) == [shard EXCEPT !.data = fn[shard.data]]

\* std::vector<Tensor> output_tensors(input_tensors.size())
DefaultTensors(n) == [i \in 1..n |-> NoShard]

\* The position both loops visit after `done` calls: front to back.
NextPosition(done, n) == done + 1

\* Variant: the input tensor is stored and the function is never called on it.
TransformAt_NoCall(outputs, inputs, i, fn) ==
    [outputs EXCEPT ![i] = inputs[i]]

\* Variant: the result stored at i is computed from the mirrored position.
TransformAt_Mirrored(outputs, inputs, i, fn) ==
    [outputs EXCEPT ![i] = CallFn(fn, inputs[Len(inputs) + 1 - i])]

\* One step of std::transform: the result for position i is stored at i.
TransformAt(outputs, inputs, i, fn) ==
    [outputs EXCEPT ![i] = CallFn(fn, inputs[i])]

TransformInit ==
    /\ tf_tensor \in MultiDeviceTensors \cup MultiDeviceHostTensors \cup SingleTensors
    /\ tf_fn \in ShardFns
    /\ tf_op \in {"transform", "apply"}
    /\ tf_inputs = <<>>
    /\ tf_outputs = <<>>
    /\ tf_calls = <<>>
    /\ tf_result = NoTensor
    /\ tf_pc = "input"

TransformIdle ==
    /\ tf_tensor = NoTensor
    /\ tf_fn = <<>>
    /\ tf_op = "none"
    /\ tf_inputs = <<>>
    /\ tf_outputs = <<>>
    /\ tf_calls = <<>>
    /\ tf_result = NoTensor
    /\ tf_pc = "idle"

TransformBegin ==
    /\ tf_pc = "input"
    /\ tf_op = "transform"
    /\ LET input_tensors == get_tensors_from_multi_device_storage(tf_tensor)
       IN /\ tf_inputs' = input_tensors
          /\ tf_outputs' = DefaultTensors(Len(input_tensors))
    /\ tf_pc' = "loop"
    /\ UNCHANGED <<tf_tensor, tf_fn, tf_op, tf_calls, tf_result>>
    /\ TransformFrame

TransformCall ==
    /\ tf_pc = "loop"
    /\ tf_op = "transform"
    /\ Len(tf_calls) < Len(tf_inputs)
    /\ LET i == NextPosition(Len(tf_calls), Len(tf_inputs))
       IN /\ tf_outputs' = TransformAt(tf_outputs, tf_inputs, i, tf_fn)
          /\ tf_calls' = Append(tf_calls, i)
    /\ UNCHANGED <<tf_tensor, tf_fn, tf_op, tf_inputs, tf_result, tf_pc>>
    /\ TransformFrame

TransformReturn ==
    /\ tf_pc = "loop"
    /\ tf_op = "transform"
    /\ Len(tf_calls) = Len(tf_inputs)
    /\ tf_result' = create_multi_device_tensor(
                        tf_outputs, tf_tensor.storage,
                        get_distributed_tensor_config_from_tensor(tf_tensor))
    /\ tf_pc' = "done"
    /\ UNCHANGED <<tf_tensor, tf_fn, tf_op, tf_inputs, tf_outputs, tf_calls>>
    /\ TransformFrame

ApplyBegin ==
    /\ tf_pc = "input"
    /\ tf_op = "apply"
    /\ tf_inputs' = get_tensors_from_multi_device_storage(tf_tensor)
    /\ tf_pc' = "loop"
    /\ UNCHANGED <<tf_tensor, tf_fn, tf_op, tf_outputs, tf_calls, tf_result>>
    /\ TransformFrame

\* callable(device_tensor): its result, if any, is dropped.
ApplyCall ==
    /\ tf_pc = "loop"
    /\ tf_op = "apply"
    /\ Len(tf_calls) < Len(tf_inputs)
    /\ tf_calls' = Append(tf_calls, NextPosition(Len(tf_calls), Len(tf_inputs)))
    /\ UNCHANGED <<tf_tensor, tf_fn, tf_op, tf_inputs, tf_outputs, tf_result, tf_pc>>
    /\ TransformFrame

ApplyReturn ==
    /\ tf_pc = "loop"
    /\ tf_op = "apply"
    /\ Len(tf_calls) = Len(tf_inputs)
    /\ tf_pc' = "done"
    /\ UNCHANGED <<tf_tensor, tf_fn, tf_op, tf_inputs, tf_outputs, tf_calls, tf_result>>
    /\ TransformFrame

\* ------------------------------------------------ layout conversion: vocabulary
TILE_HEIGHT == 32
TILE_WIDTH == 32

DataTypes ==
    {"BFLOAT16", "FLOAT32", "UINT32", "BFLOAT8_B", "BFLOAT4_B", "UINT8", "UINT16", "INT32"}
PackedDataTypes == {"BFLOAT8_B", "BFLOAT4_B"}
Layouts == {"ROW_MAJOR", "TILE"}
NoDataType == "nullopt"

\* The element type of the buffer a tensor of a data type holds.
BufferTypeOf(dtype) ==
    CASE dtype = "BFLOAT16" -> "bfloat16"
      [] dtype = "FLOAT32" -> "float"
      [] dtype = "UINT32" -> "uint32_t"
      [] dtype = "INT32" -> "int32_t"
      [] dtype = "UINT16" -> "uint16_t"
      [] dtype = "UINT8" -> "uint8_t"
      [] OTHER -> "uint32_t"

RowMajorRequired ==
    "Tensor(weight/bias) should be in row major layout for conversion to tilized layout."
Float32Required == "input_tensor.get_dtype() == DataType::FLOAT32"
UnsupportedDataType == "Unsupported data type"
UnsupportedStorageType == "Unsupported storage type"
UnsupportedOutputDatatype == "Unsupported output datatype"

\* TT_ASSERT(condition): fails, and ends the conversion, when the condition is
\* false.
TT_ASSERT_fails(condition) == ~condition

\* What a conversion hands back: the tensor or the failure, the steps it went
\* through, and the matrices its repack routine filled.
Success(t, steps, matrices) ==
    [ok |-> TRUE, tensor |-> t, steps |-> steps, matrices |-> matrices]
Failure(msg, steps) ==
    [ok |-> FALSE, error |-> msg, steps |-> steps, matrices |-> <<>>]
After(steps, res) == [res EXCEPT !.steps = steps \o @]

\* ----------------------------------------------------- owned_buffer, volume
\* An owned buffer of `size` elements, all zero until written: elems holds
\* the written positions only.  oob records a store outside the buffer.
owned_buffer_create(size) == [size |-> size, elems |-> <<>>, oob |-> FALSE]

BufferAt(buf, i) == IF i \in DOMAIN buf.elems THEN buf.elems[i] ELSE 0

\* The stores lo..hi of a loop nest, done in loop order: a position holds the
\* value of the last store made to it.  A store outside the buffer is left out.
RECURSIVE StoreRange(_, _, _, _)
StoreRange(stores, size, lo, hi) ==
    IF lo > hi THEN <<>>
    ELSE IF lo = hi
    THEN IF stores[lo].at \in 0..(size - 1)
         THEN stores[lo].at :> stores[lo].val
         ELSE <<>>
    ELSE LET mid == (lo + hi) \div 2
         IN StoreRange(stores, size, mid + 1, hi) @@ StoreRange(stores, size, lo, mid)

StoreAll(buf, stores) ==
    [size |-> buf.size,
     elems |-> StoreRange(stores, buf.size, 1, Len(stores)) @@ buf.elems,
     oob |-> buf.oob \/ \E p \in 1..Len(stores) : stores[p].at \notin 0..(buf.size - 1)]

RECURSIVE SeqProduct(_, _)
SeqProduct(dims, from) ==
    IF from > Len(dims) THEN 1 ELSE dims[from] * SeqProduct(dims, from + 1)

volume(shape) == SeqProduct(shape, 1)

\* The loop variables of iteration p (from 0) of a loop nest whose loops run
\* to dims[1], dims[2], ... from the outermost to the innermost.
LoopVars(p, dims) ==
    [j \in 1..Len(dims) |-> (p \div SeqProduct(dims, j + 1)) % dims[j]]

\* (uint32_t)std::ceil((double)x / (double)datums) * datums, when x is not a
\* multiple of datums already.
PadToBlock_Floor(x, datums) == (x \div datums) * datums

PadToBlock(x, datums) ==
    IF x % datums # 0 THEN ((x + datums - 1) \div datums) * datums ELSE x

\* Variant: a whole tile is added to a dimension that is a multiple already.
CeilToTile_NextTile(x, tile) == ((x \div tile) + 1) * tile

\* (uint32_t)std::ceil((double)x / (double)tile) * tile
CeilToTile(x, tile) == ((x + tile - 1) \div tile) * tile

\* ------------------------------------------------------ Tensor::to, packing
\* Position of element (row, col) of a rows x cols matrix in tiled order:
\* tiles in row-major order, the elements of a tile in row-major order.
TiledIndex(i, cols) ==
    LET row == i \div cols
        col == i % cols
        tiles_per_row == div_up(cols, TILE_WIDTH)
    IN ((row \div TILE_HEIGHT) * tiles_per_row + (col \div TILE_WIDTH))
           * (TILE_HEIGHT * TILE_WIDTH)
       + (row % TILE_HEIGHT) * TILE_WIDTH + (col % TILE_WIDTH)

TensorToTile(t) ==
    LET rows == t.shape[3]
        cols == t.shape[4]
        tiled_size == div_up(rows, TILE_HEIGHT) * TILE_HEIGHT
                      * div_up(cols, TILE_WIDTH) * TILE_WIDTH
        written == DOMAIN t.buf.elems
    IN [t EXCEPT !.layout = "TILE",
                 !.buf = [size |-> tiled_size * t.shape[1] * t.shape[2],
                          elems |-> [n \in { TiledIndex(i, cols) : i \in written } |->
                                       t.buf.elems[CHOOSE i \in written : TiledIndex(i, cols) = n]],
                          oob |-> t.buf.oob]]

\* pack_fp32_vec_as_bfp8_tiles / pack_fp32_vec_as_bfp4_tiles: the packed words
\* of a tiled float vector.
pack_fp32_vec_as_tiles(float_buf, output_dtype) ==
    [packed |-> output_dtype, floats |-> float_buf]

OwnedTensor(etype, buf, shape, dtype, layout) ==
    [storage |-> "OWNED", shape |-> shape, dtype |-> dtype, layout |-> layout,
     etype |-> etype, buf |-> buf]

\* ------------------------------------------ create_tensor_from_owned_buffer
\* The guard of the TT_FATAL of the non-float branch, as written.
OutputDatatypeSupported(output_dtype) ==
    (output_dtype # "BFLOAT8_B") \/ (output_dtype # "BFLOAT4_B")

\* Variant: a float buffer is converted directly for every output data type.
create_tensor_from_owned_buffer_NoPacking(T, buf, output_dtype, output_shape) ==
    Success(TensorToTile(OwnedTensor(T, buf, output_shape, output_dtype, "ROW_MAJOR")),
            << <<"Tensor", T, output_dtype, "ROW_MAJOR">>, <<"to", "TILE">> >>,
            <<>>)

create_tensor_from_owned_buffer(T, buf, output_dtype, output_shape) ==
    IF T = "float" /\ (output_dtype = "BFLOAT8_B" \/ output_dtype = "BFLOAT4_B")
    THEN LET tiled == TensorToTile(
                 OwnedTensor("float", buf, output_shape, "FLOAT32", "ROW_MAJOR"))
             output_packed_data == pack_fp32_vec_as_tiles(tiled.buf, output_dtype)
         IN Success(OwnedTensor("uint32_t", output_packed_data, output_shape,
                                output_dtype, "TILE"),
                    << <<"Tensor", "float", "FLOAT32", "ROW_MAJOR">>,
                       <<"to", "TILE">>,
                       <<"pack", output_dtype>>,
                       <<"Tensor", "uint32_t", output_dtype, "TILE">> >>,
                    <<>>)
    ELSE IF T # "float" /\ ~OutputDatatypeSupported(output_dtype)
    THEN Failure(UnsupportedOutputDatatype, <<>>)
    ELSE Success(TensorToTile(
                     OwnedTensor(T, buf, output_shape, output_dtype, "ROW_MAJOR")),
                 << <<"Tensor", T, output_dtype, "ROW_MAJOR">>, <<"to", "TILE">> >>,
                 <<>>)

\* A repack routine's result: the steps of the routine first, and the matrix
\* it filled.
Repacked(res, T, output_shape, output_buffer) ==
    [res EXCEPT !.steps = << <<"repack", T>> >> \o @,
                !.matrices = << [shape |-> output_shape, buf |-> output_buffer] >>]

\* ------------------------------------------------------ to_weight_tile_layout
\* Loop variables <<r, s, c, k>>, k innermost.
WeightLoops(w_shape) == <<w_shape[3], w_shape[4], w_shape[2], w_shape[1]>>

\* Variant: the kernel column is left out of the source index.
WeightIdx_NoKernelColumn(k, c, r, s, w_shape) ==
    k * w_shape[2] * w_shape[3] * w_shape[4] + c * w_shape[3] * w_shape[4]
    + r * w_shape[4]

WeightIdx(k, c, r, s, w_shape) ==
    k * w_shape[2] * w_shape[3] * w_shape[4] + c * w_shape[3] * w_shape[4]
    + r * w_shape[4] + s

WeightMatrixIdx_KernelRowMajor(k, c, r, s, w_shape, weight_matrix_cols) ==
    k + c * weight_matrix_cols + r * w_shape[2] * weight_matrix_cols
    + s * w_shape[3] * w_shape[2] * weight_matrix_cols

WeightMatrixIdx(k, c, r, s, w_shape, weight_matrix_cols) ==
    k + c * weight_matrix_cols + s * w_shape[2] * weight_matrix_cols
    + r * w_shape[4] * w_shape[2] * weight_matrix_cols

to_weight_tile_layout_compute(T, input_buffer, w_shape, in1_block_h, in1_block_w, output_dtype) ==
    LET weight_matrix_cols == PadToBlock(w_shape[1], in1_block_w * TILE_WIDTH)
        weight_matrix_rows ==
            PadToBlock(w_shape[2] * w_shape[3] * w_shape[4], in1_block_h * TILE_HEIGHT)
        output_shape == <<1, 1, weight_matrix_rows, weight_matrix_cols>>
        loops == WeightLoops(w_shape)
        stores ==
            [p \in 1..volume(loops) |->
                LET v == LoopVars(p - 1, loops)
                IN [at |-> WeightMatrixIdx(v[4], v[3], v[1], v[2], w_shape, weight_matrix_cols),
                    val |-> input_buffer[WeightIdx(v[4], v[3], v[1], v[2], w_shape)]]]
        output_buffer == StoreAll(owned_buffer_create(volume(output_shape)), stores)
    IN Repacked(create_tensor_from_owned_buffer(T, output_buffer, output_dtype, output_shape),
                T, output_shape, output_buffer)

\* -------------------------------------- to_weight_special_padding_tile_layout
BlockHeightCoversChannels == "in1_block_h_datums >= w_shape[1] * w_shape[3]"

SpecialPaddingMatrixIdx(k, c, r, s, w_shape, weight_matrix_cols, block_height_padding) ==
    k + c * weight_matrix_cols + s * w_shape[2] * weight_matrix_cols
    + r * ((w_shape[4] * w_shape[2]) + block_height_padding) * weight_matrix_cols

\* The assert is compiled out under NDEBUG: a block height below C*S then
\* wraps block_height_padding, and the sums that use it wrap back, so rows and
\* matrix_idx are what the unbounded integers give; stores past the matrix
\* are undefined behaviour.
to_weight_special_padding_tile_layout_compute(T, input_buffer, w_shape, in1_block_h, in1_block_w, ndebug, output_dtype) ==
    LET in1_block_h_datums == in1_block_h * TILE_HEIGHT
        in1_block_w_datums == in1_block_w * TILE_WIDTH
        weight_matrix_cols == PadToBlock(w_shape[1], in1_block_w_datums)
        block_height_padding == in1_block_h_datums - (w_shape[2] * w_shape[4])
        weight_matrix_rows == ((w_shape[2] * w_shape[4]) + block_height_padding) * w_shape[3]
        output_shape == <<1, 1, weight_matrix_rows, weight_matrix_cols>>
        loops == WeightLoops(w_shape)
        stores ==
            [p \in 1..volume(loops) |->
                LET v == LoopVars(p - 1, loops)
                IN [at |-> SpecialPaddingMatrixIdx(v[4], v[3], v[1], v[2], w_shape,
                                                   weight_matrix_cols, block_height_padding),
                    val |-> input_buffer[WeightIdx(v[4], v[3], v[1], v[2], w_shape)]]]
        output_buffer == StoreAll(owned_buffer_create(volume(output_shape)), stores)
    IN IF ~ndebug /\ ~(in1_block_h_datums >= w_shape[2] * w_shape[4])
       THEN Failure(BlockHeightCoversChannels, <<>>)
       ELSE Repacked(create_tensor_from_owned_buffer(T, output_buffer, output_dtype,
                                                     output_shape),
                     T, output_shape, output_buffer)

\* ---------------------------------------- to_bias_tile_layout_block_sharded
BiasIsOneRow == "b_shape[0] == 1 && b_shape[1] == 1 && b_shape[2] == 1"

bias_matrix_rows == 32

\* Loop variables <<oc, k_s>>.
to_bias_tile_layout_block_sharded_compute(T, input_buffer, b_shape, num_channel_shards, output_dtype) ==
    LET conv_output_shard_width == b_shape[4] \div num_channel_shards
        conv_output_shard_width_padded == CeilToTile(conv_output_shard_width, TILE_WIDTH)
        bias_matrix_cols ==
            IF conv_output_shard_width < conv_output_shard_width_padded
            THEN conv_output_shard_width_padded * num_channel_shards
            ELSE b_shape[4]
        output_shape == <<1, 1, bias_matrix_rows, bias_matrix_cols>>
        loops == <<num_channel_shards, conv_output_shard_width>>
        stores ==
            [p \in 1..volume(loops) |->
                LET v == LoopVars(p - 1, loops)
                IN [at |-> v[1] * conv_output_shard_width_padded + v[2],
                    val |-> input_buffer[v[1] * conv_output_shard_width + v[2]]]]
        output_buffer == StoreAll(owned_buffer_create(volume(output_shape)), stores)
    IN Repacked(create_tensor_from_owned_buffer(T, output_buffer, output_dtype, output_shape),
                T, output_shape, output_buffer)

\* --------------------------------------- to_weight_tile_layout_block_sharded
OutputChannelsDivisible == "weight_matrix_cols % num_channel_shards == 0"
InputChannelsDivisible == "w_shape[1] % num_channel_shards == 0"

\* Loop variables <<ic, r, s, c_s, oc, k_s>>, k_s innermost.
BlockShardedLoops(w_shape, num_channel_shards) ==
    <<num_channel_shards, w_shape[3], w_shape[4], w_shape[2] \div num_channel_shards,
      num_channel_shards, w_shape[1] \div num_channel_shards>>

BlockShardedIdx(v, w_shape, shard_width, in_shard_width) ==
    (v[5] * shard_width + v[6]) * w_shape[2] * w_shape[3] * w_shape[4]
    + (v[1] * in_shard_width + v[4]) * w_shape[3] * w_shape[4]
    + v[2] * w_shape[4] + v[3]

BlockShardedMatrixIdx_Unpadded(v, w_shape, cols, shard_width, shard_width_padded, in_shard_width, block_height_padded) ==
    (v[5] * shard_width + v[6])
    + v[4] * cols
    + v[3] * in_shard_width * cols
    + v[2] * w_shape[4] * in_shard_width * cols
    + v[1] * block_height_padded * cols

BlockShardedMatrixIdx(v, w_shape, cols, shard_width, shard_width_padded, in_shard_width, block_height_padded) ==
    (v[5] * shard_width_padded + v[6])
    + v[4] * cols
    + v[3] * in_shard_width * cols
    + v[2] * w_shape[4] * in_shard_width * cols
    + v[1] * block_height_padded * cols

to_weight_tile_layout_block_sharded_compute(T, input_buffer, w_shape, num_channel_shards, output_dtype) ==
    IF TT_ASSERT_fails(w_shape[1] % num_channel_shards = 0)
    THEN Failure(OutputChannelsDivisible, <<>>)
    ELSE IF TT_ASSERT_fails(w_shape[2] % num_channel_shards = 0)
    THEN Failure(InputChannelsDivisible, <<>>)
    ELSE
    LET conv_output_shard_width == w_shape[1] \div num_channel_shards
        conv_output_shard_width_padded == CeilToTile(conv_output_shard_width, TILE_WIDTH)
        weight_matrix_cols ==
            IF conv_output_shard_width < conv_output_shard_width_padded
            THEN conv_output_shard_width_padded * num_channel_shards
            ELSE w_shape[1]
        conv_input_shard_width == w_shape[2] \div num_channel_shards
        weight_block_height == conv_input_shard_width * w_shape[3] * w_shape[4]
        weight_block_height_padded == CeilToTile(weight_block_height, TILE_HEIGHT)
        weight_matrix_rows ==
            IF weight_block_height < weight_block_height_padded
            THEN weight_block_height_padded * num_channel_shards
            ELSE w_shape[2] * w_shape[3] * w_shape[4]
        output_shape == <<1, 1, weight_matrix_rows, weight_matrix_cols>>
        loops == BlockShardedLoops(w_shape, num_channel_shards)
        stores ==
            [p \in 1..volume(loops) |->
                LET v == LoopVars(p - 1, loops)
                IN [at |-> BlockShardedMatrixIdx(
                               v, w_shape, weight_matrix_cols, conv_output_shard_width,
                               conv_output_shard_width_padded, conv_input_shard_width,
                               weight_block_height_padded),
                    val |-> input_buffer[BlockShardedIdx(v, w_shape, conv_output_shard_width,
                                                         conv_input_shard_width)]]]
        output_buffer == StoreAll(owned_buffer_create(volume(output_shape)), stores)
    IN Repacked(create_tensor_from_owned_buffer(T, output_buffer, output_dtype, output_shape),
                T, output_shape, output_buffer)

\* --------------------- conv_group_weight_zero_pad_helper, depthwise broadcast
\* Strides of a shape: the product of the dimensions to the right.
compute_strides(shape) == [j \in 1..Len(shape) |-> SeqProduct(shape, j + 1)]

RECURSIVE DotFrom(_, _, _)
DotFrom(indices, strides, from) ==
    IF from > Len(indices) THEN 0
    ELSE indices[from] * strides[from] + DotFrom(indices, strides, from + 1)

compute_flat_indices(indices, strides) == DotFrom(indices, strides, 1)

GroupedOutputShape(shape, num_groups) ==
    <<shape[1], shape[2] * num_groups, shape[3], shape[4]>>

DepthwiseOutputShape(shape, act_block_h_ntiles) ==
    <<shape[1], act_block_h_ntiles * TILE_HEIGHT, shape[3], shape[4]>>

Min(a, b) == IF a < b THEN a ELSE b

\* Variant: the group index is used as it is.
GroupId_Unclamped(curr_batch_idx, group_size, num_groups) ==
    curr_batch_idx \div group_size

GroupId(curr_batch_idx, group_size, num_groups) ==
    Min(curr_batch_idx \div group_size, num_groups - 1)

\* Loop variables <<curr_batch_idx, j, k, m>>.  A group size of zero divides by
\* zero: the build traps, or its division yields zero.
conv_group_weight_zero_pad_helper_compute(T, conv_weight_tensor_buffer, original_weight_shape, num_groups, div_traps, output_dtype) ==
    LET output_weight_shape == GroupedOutputShape(original_weight_shape, num_groups)
        group_size == original_weight_shape[1] \div num_groups
        group_id(curr_batch_idx) ==
            IF group_size = 0 THEN Min(0, num_groups - 1)
            ELSE GroupId(curr_batch_idx, group_size, num_groups)
        stores ==
            [p \in 1..volume(original_weight_shape) |->
                LET v == LoopVars(p - 1, original_weight_shape)
                    new_channel_idx == group_id(v[1]) * original_weight_shape[2] + v[2]
                IN [at |-> compute_flat_indices(<<v[1], new_channel_idx, v[3], v[4]>>,
                                                compute_strides(output_weight_shape)),
                    val |-> conv_weight_tensor_buffer[
                                compute_flat_indices(v, compute_strides(original_weight_shape))]]]
        output_buffer == StoreAll(owned_buffer_create(volume(output_weight_shape)), stores)
    IN IF group_size = 0 /\ div_traps
       THEN Failure(DivideByZero, <<>>)
       ELSE Success(OwnedTensor(T, output_buffer, output_weight_shape, output_dtype,
                                "ROW_MAJOR"),
                    << <<"repack", T>>, <<"Tensor", T, output_dtype, "ROW_MAJOR">> >>,
                    << [shape |-> output_weight_shape, buf |-> output_buffer] >>)

BadVariantAccess == "std::bad_variant_access"

\* borrowed_buffer::get_as<T>(tensor): the buffer of a borrowed storage that
\* holds elements of type T.
borrowed_buffer_get_as(T, t) ==
    IF t.storage = "BORROWED" /\ t.buffers[1].etype = T
    THEN [ok |-> TRUE, data |-> t.buffers[1].data]
    ELSE [ok |-> FALSE, error |-> BadVariantAccess]

\* Variant: every kernel column of the output reads kernel column 0.
DepthwiseSource_FirstColumn(v) == <<v[1], 0, v[3], 0>>

DepthwiseSource(v) == <<v[1], 0, v[3], v[4]>>

\* Loop variables <<i, j, k, l>> over the output shape.
conv_depthwise_weight_bcast_helper(T, conv_weight_tensor, params, output_dtype) ==
    LET original_weight_shape == conv_weight_tensor.shape
        output_weight_shape ==
            DepthwiseOutputShape(original_weight_shape, params.act_block_h_ntiles)
        conv_weight_tensor_buffer == borrowed_buffer_get_as(T, conv_weight_tensor)
        stores ==
            [p \in 1..volume(output_weight_shape) |->
                LET v == LoopVars(p - 1, output_weight_shape)
                IN [at |-> compute_flat_indices(v, compute_strides(output_weight_shape)),
                    val |-> conv_weight_tensor_buffer.data[
                                compute_flat_indices(DepthwiseSource(v),
                                                     compute_strides(original_weight_shape))]]]
        output_buffer == StoreAll(owned_buffer_create(volume(output_weight_shape)), stores)
    IN IF ~conv_weight_tensor_buffer.ok
       THEN Failure(conv_weight_tensor_buffer.error, <<>>)
       ELSE Success(OwnedTensor(T, output_buffer, output_weight_shape, output_dtype,
                                "ROW_MAJOR"),
                    << <<"repack", T>>, <<"Tensor", T, output_dtype, "ROW_MAJOR">> >>,
                    << [shape |-> output_weight_shape, buf |-> output_buffer] >>)

\* ----------------------------------------------------------- convert_tensor
is_multi_device_tensor(t) == t.storage \in {"MULTI_DEVICE", "MULTI_DEVICE_HOST"}

\* The storage of the shards get_tensors_from_multi_device_storage returns.
ShardStorage(t) ==
    IF t.storage = "MULTI_DEVICE" THEN "DEVICE"
    ELSE IF t.storage = "MULTI_DEVICE_HOST" THEN "OWNED"
    ELSE t.storage

RECURSIVE Flatten(_, _, _)
Flatten(seqs, from, to) ==
    IF from > to THEN <<>> ELSE seqs[from] \o Flatten(seqs, from + 1, to)

\* owned_buffer::get_as<T>(buffer), borrowed_buffer::get_as<T>(buffer): the
\* buffer, when it holds elements of type T.
buffer_get_as(T, buffer) ==
    IF buffer.etype = T
    THEN [ok |-> TRUE, data |-> buffer.data]
    ELSE [ok |-> FALSE, error |-> BadVariantAccess]

\* Variant: the visitor computes on the buffer of every storage.
ConvertStorage_AnyStorage(T, storage, buffer, computed) ==
    IF buffer_get_as(T, buffer).ok
    THEN computed
    ELSE Failure(buffer_get_as(T, buffer).error, <<>>)

\* The visitor: what the compute routine returns on the buffer of an owned or
\* a borrowed storage (computed), a throw on every other storage.
ConvertStorage(T, storage, buffer, computed) ==
    IF storage = "OWNED" \/ storage = "BORROWED"
    THEN IF buffer_get_as(T, buffer).ok
         THEN computed
         ELSE Failure(buffer_get_as(T, buffer).error, <<>>)
    ELSE Failure(UnsupportedStorageType, <<>>)

\* transform(input_tensor, convert_tensor): shard by shard in order; the first
\* throw ends it.
ConvertShards(T, t, computed) ==
    LET n == Len(t.buffers)
        each == [i \in 1..n |->
                   ConvertStorage(T, ShardStorage(t), t.buffers[i], computed[i])]
        failed == { i \in 1..n : ~each[i].ok }
    IN IF failed # {}
       THEN LET first == CHOOSE i \in failed : \A j \in failed : i <= j
            IN Failure(each[first].error,
                       Flatten([i \in 1..n |-> each[i].steps], 1, first))
       ELSE Success([storage |-> t.storage,
                     tensors |-> [i \in 1..n |-> each[i].tensor]],
                    Flatten([i \in 1..n |-> each[i].steps], 1, n),
                    Flatten([i \in 1..n |-> each[i].matrices], 1, n))

\* computed[i] is what the compute routine returns on buffer i of the tensor.
convert_tensor(T, input_tensor, computed) ==
    IF is_multi_device_tensor(input_tensor)
    THEN ConvertShards(T, input_tensor, computed)
    ELSE ConvertStorage(T, input_tensor.storage, input_tensor.buffers[1], computed[1])

to_weight_tile_layout(T, conv_weight_tensor, params, output_dtype) ==
    convert_tensor(T, conv_weight_tensor,
        [i \in 1..Len(conv_weight_tensor.buffers) |->
            to_weight_tile_layout_compute(
                T, conv_weight_tensor.buffers[i].data, conv_weight_tensor.shape,
                params.in1_block_h, params.in1_block_w, output_dtype)])

to_weight_tile_layout_block_sharded(T, conv_weight_tensor, params, output_dtype) ==
    convert_tensor(T, conv_weight_tensor,
        [i \in 1..Len(conv_weight_tensor.buffers) |->
            to_weight_tile_layout_block_sharded_compute(
                T, conv_weight_tensor.buffers[i].data, conv_weight_tensor.shape,
                params.num_channel_shards, output_dtype)])

to_weight_special_padding_tile_layout(T, conv_weight_tensor, params, output_dtype) ==
    convert_tensor(T, conv_weight_tensor,
        [i \in 1..Len(conv_weight_tensor.buffers) |->
            to_weight_special_padding_tile_layout_compute(
                T, conv_weight_tensor.buffers[i].data, conv_weight_tensor.shape,
                params.in1_block_h, params.in1_block_w, params.ndebug, output_dtype)])

to_bias_tile_layout_block_sharded(T, conv_bias_tensor, params, output_dtype) ==
    IF TT_ASSERT_fails(conv_bias_tensor.shape[1] = 1 /\ conv_bias_tensor.shape[2] = 1
                       /\ conv_bias_tensor.shape[3] = 1)
    THEN Failure(BiasIsOneRow, <<>>)
    ELSE convert_tensor(T, conv_bias_tensor,
        [i \in 1..Len(conv_bias_tensor.buffers) |->
            to_bias_tile_layout_block_sharded_compute(
                T, conv_bias_tensor.buffers[i].data, conv_bias_tensor.shape,
                params.num_channel_shards, output_dtype)])

conv_group_weight_zero_pad_helper(T, weight, params, output_dtype) ==
    convert_tensor(T, weight,
        [i \in 1..Len(weight.buffers) |->
            conv_group_weight_zero_pad_helper_compute(
                T, weight.buffers[i].data, weight.shape, params.num_groups,
                params.div_traps, output_dtype)])

\* ------------------------------------ convert_tensor_to_tiled_layout_common
value_or(output_dtype, dtype) ==
    IF output_dtype = NoDataType THEN dtype ELSE output_dtype

\* Variant: both branches compare the input data type with itself.
DtypeAssertHolds_Tautology(input_tensor, output_dtype) ==
    input_tensor.dtype = input_tensor.dtype

\* The TT_ASSERT on the input data type, reached when an output data type is
\* given.
DtypeAssertHolds(input_tensor, output_dtype) ==
    IF output_dtype = "BFLOAT8_B" \/ output_dtype = "BFLOAT4_B"
    THEN input_tensor.dtype = "FLOAT32"
    ELSE input_tensor.dtype = input_tensor.dtype

\* The entry found in the map: the routine instantiated at T, and the output
\* data type it is called with.
Entry(T, output_dtype) ==
    [ok |-> TRUE, T |-> T, output_dtype |-> output_dtype,
     steps |-> << <<"dispatch", T>> >>]

\* Variant: the layout of the input is not looked at.
convert_tensor_to_tiled_layout_common_AnyLayout(input_tensor, output_dtype, function_map) ==
    IF output_dtype # NoDataType
       /\ TT_ASSERT_fails(DtypeAssertHolds(input_tensor, output_dtype))
    THEN Failure(Float32Required, <<>>)
    ELSE IF input_tensor.dtype \notin DOMAIN function_map
    THEN Failure(UnsupportedDataType, <<>>)
    ELSE Entry(function_map[input_tensor.dtype],
               value_or(output_dtype, input_tensor.dtype))

\* The checks and the lookup; the caller below makes the call entry->second(...).
convert_tensor_to_tiled_layout_common(input_tensor, output_dtype, function_map) ==
    IF TT_ASSERT_fails(input_tensor.layout = "ROW_MAJOR")
    THEN Failure(RowMajorRequired, <<>>)
    ELSE IF output_dtype # NoDataType
            /\ TT_ASSERT_fails(DtypeAssertHolds(input_tensor, output_dtype))
    THEN Failure(Float32Required, <<>>)
    ELSE IF input_tensor.dtype \notin DOMAIN function_map
    THEN Failure(UnsupportedDataType, <<>>)
    ELSE Entry(function_map[input_tensor.dtype],
               value_or(output_dtype, input_tensor.dtype))

\* Variant: UINT32 tensors go to the routine for float.
TiledFunctionMap_Uint32AsFloat ==
    ("BFLOAT16" :> "bfloat16") @@ ("FLOAT32" :> "float") @@ ("UINT32" :> "float")

TiledFunctionMap ==
    ("BFLOAT16" :> "bfloat16") @@ ("FLOAT32" :> "float") @@ ("UINT32" :> "uint32_t")

convert_conv_weight_tensor_to_tiled_layout(conv_weight_tensor, params, output_dtype) ==
    LET entry == convert_tensor_to_tiled_layout_common(
                     conv_weight_tensor, output_dtype, TiledFunctionMap)
    IN IF ~entry.ok THEN entry
       ELSE After(entry.steps,
                  to_weight_tile_layout(entry.T, conv_weight_tensor, params,
                                        entry.output_dtype))

convert_conv_weight_tensor_to_tiled_layout_block_sharded(conv_weight_tensor, params, output_dtype) ==
    LET entry == convert_tensor_to_tiled_layout_common(
                     conv_weight_tensor, output_dtype, TiledFunctionMap)
    IN IF ~entry.ok THEN entry
       ELSE After(entry.steps,
                  to_weight_tile_layout_block_sharded(entry.T, conv_weight_tensor, params,
                                                      entry.output_dtype))

convert_conv_bias_tensor_to_tiled_layout_block_sharded(conv_bias_tensor, params, output_dtype) ==
    LET entry == convert_tensor_to_tiled_layout_common(
                     conv_bias_tensor, output_dtype, TiledFunctionMap)
    IN IF ~entry.ok THEN entry
       ELSE After(entry.steps,
                  to_bias_tile_layout_block_sharded(entry.T, conv_bias_tensor, params,
                                                    entry.output_dtype))

convert_conv_weight_tensor_to_special_padding_tiled_layout(conv_weight_tensor, params, output_dtype) ==
    LET entry == convert_tensor_to_tiled_layout_common(
                     conv_weight_tensor, output_dtype, TiledFunctionMap)
    IN IF ~entry.ok THEN entry
       ELSE After(entry.steps,
                  to_weight_special_padding_tile_layout(entry.T, conv_weight_tensor,
                                                        params, entry.output_dtype))

GroupedFunctionMap ==
    ("INT32" :> "int32_t") @@ ("FLOAT32" :> "float") @@ ("BFLOAT16" :> "bfloat16")
    @@ ("UINT16" :> "uint16_t") @@ ("BFLOAT8_B" :> "float") @@ ("UINT32" :> "uint32_t")
    @@ ("BFLOAT4_B" :> "uint32_t")

convert_conv_weight_tensor_to_grouped_layout(conv_weight_tensor, params, output_dtype) ==
    LET entry == convert_tensor_to_tiled_layout_common(
                     conv_weight_tensor,
                     IF output_dtype = "BFLOAT8_B" THEN "FLOAT32" ELSE output_dtype,
                     GroupedFunctionMap)
    IN IF ~entry.ok THEN entry
       ELSE After(entry.steps,
                  conv_group_weight_zero_pad_helper(entry.T, conv_weight_tensor, params,
                                                    entry.output_dtype))

convert_conv_weight_tensor_to_depthwise_layout(conv_weight_tensor, params, output_dtype) ==
    LET entry == convert_tensor_to_tiled_layout_common(
                     conv_weight_tensor,
                     IF output_dtype = "BFLOAT8_B" \/ output_dtype = "BFLOAT4_B"
                     THEN "FLOAT32" ELSE output_dtype,
                     GroupedFunctionMap)
    IN IF ~entry.ok THEN entry
       ELSE After(entry.steps,
                  conv_depthwise_weight_bcast_helper(entry.T, conv_weight_tensor, params,
                                                     entry.output_dtype))

\* ------------------------------------------------- conversions: inputs, calls
Ramp(first, n) == [i \in 0..(n - 1) |-> first + i]

Params(bh, bw, shards, groups, ntiles) ==
    [in1_block_h |-> bh, in1_block_w |-> bw, num_channel_shards |-> shards,
     num_groups |-> groups, act_block_h_ntiles |-> ntiles]

\* Weight shapes [K, C, R, S]: small dimensions, and a whole tile of output or
\* input channels.
WeightShapes ==
    { sh \in (1..MaxWeightDim \cup {TILE_WIDTH}) \X (1..MaxWeightDim \cup {TILE_HEIGHT})
             \X (1..MaxWeightDim) \X (1..MaxWeightDim) :
        volume(sh) <= MaxWeightVolume }

TiledGeometries ==
    { [shape |-> sh, params |-> Params(bh, bw, 1, 1, 1)] :
        sh \in WeightShapes, bh \in 1..MaxBlock, bw \in 1..MaxBlock }

\* Weight shapes whose shards are whole tiles of output or of input channels.
ShardAlignedShapes ==
    { <<n * TILE_WIDTH, n, 1, 1>> : n \in 1..MaxChannelShards }
    \cup { <<n, n * TILE_HEIGHT, 1, 1>> : n \in 1..MaxChannelShards }

BlockShardedGeometries ==
    { [shape |-> sh, params |-> Params(1, 1, n, 1, 1)] :
        sh \in WeightShapes \cup ShardAlignedShapes, n \in 1..MaxChannelShards }

\* Bias shapes [1, 1, 1, K], and shapes that are not one row.
BiasShapes ==
    { <<1, 1, 1, K>> : K \in 1..MaxWeightDim \cup
                              { n * TILE_WIDTH : n \in 1..MaxChannelShards } }
    \cup { <<1, 1, MaxWeightDim, 1>>, <<MaxWeightDim, 1, 1, 1>> }

BiasGeometries ==
    { [shape |-> sh, params |-> Params(1, 1, n, 1, 1)] :
        sh \in BiasShapes, n \in 1..MaxChannelShards }

\* Grouped weights [O, Cg, H, W] with up to MaxGroups groups of MaxWeightDim
\* output channels, and depthwise weights.
GroupedGeometries ==
    { [shape |-> sh, params |-> Params(1, 1, 1, G, 1)] :
        sh \in (1..(MaxWeightDim * MaxGroups)) \X (1..MaxWeightDim)
                \X (1..MaxWeightDim) \X (1..MaxWeightDim),
        G \in 1..MaxGroups }

DepthwiseGeometries ==
    { [shape |-> sh, params |-> Params(1, 1, 1, 1, ntiles)] :
        sh \in (1..MaxWeightDim) \X (1..MaxWeightDim)
                \X (1..MaxWeightDim) \X (1..MaxWeightDim),
        ntiles \in 1..MaxBlock }

Geometries(op) ==
    CASE op = "tiled" -> TiledGeometries
      [] op = "grouped" -> GroupedGeometries
      [] op = "depthwise" -> DepthwiseGeometries
      [] op = "special_padding" -> TiledGeometries
      [] op = "bias_block_sharded" -> BiasGeometries
      [] op = "block_sharded" -> BlockShardedGeometries

\* The geometry every storage, layout and data type is drawn with.
SmallGeometry(op) ==
    CASE op = "tiled" -> [shape |-> <<MaxWeightDim, MaxWeightDim, 1, 1>>,
                          params |-> Params(1, MaxBlock, 1, 1, 1)]
      [] op = "block_sharded" ->
            [shape |-> <<1, 1, 1, 1>>, params |-> Params(1, 1, 1, 1, 1)]
      [] op = "special_padding" ->
            [shape |-> <<1, 1, 1, 1>>, params |-> Params(1, 1, 1, 1, 1)]
      [] op = "bias_block_sharded" ->
            [shape |-> <<1, 1, 1, 1>>, params |-> Params(1, 1, 1, 1, 1)]
      [] op = "grouped" ->
            [shape |-> <<1, 1, 1, 1>>, params |-> Params(1, 1, 1, 1, 1)]
      [] op = "depthwise" ->
            [shape |-> <<1, 1, 1, 1>>, params |-> Params(1, 1, 1, 1, 1)]

ConvertOps ==
    {"tiled", "special_padding", "block_sharded", "bias_block_sharded", "grouped",
     "depthwise"}

\* The conversions whose output data type is not optional.
OutputDtypeRequired == {"grouped", "depthwise"}

NumBuffers(storage) ==
    IF storage \in {"MULTI_DEVICE", "MULTI_DEVICE_HOST"} THEN MaxHostShards ELSE 1

\* A tensor of a storage kind: buffer i holds first, first + 1, ... shifted by
\* i, so no two elements of a buffer are equal.
InputTensor(storage, layout, dtype, shape, first) ==
    [storage |-> storage, layout |-> layout, dtype |-> dtype, shape |-> shape,
     buffers |-> [i \in 1..NumBuffers(storage) |->
                    [etype |-> BufferTypeOf(dtype),
                     data |-> Ramp(first + i - 1, volume(shape))]]]

NoResult == [ok |-> FALSE, error |-> "not called"]

ConvertInputs(op, g, storage, layout, dtype, output_dtype) ==
    /\ cv_op = op
    /\ cv_tensor = InputTensor(storage, layout, dtype, g.shape, 1)
    /\ cv_params = g.params
    /\ cv_output_dtype = output_dtype
    /\ cv_matrix = <<>>
    /\ cv_trace = <<>>
    /\ cv_result = NoResult
    /\ cv_pc = "input"

\* Row-major float tensors on the host, of every shape and parameter drawn.
RepackInit ==
    \E op \in ConvertOps :
    \E g \in Geometries(op) :
    \E storage \in {"OWNED", "BORROWED"} :
        ConvertInputs(op, g, storage, "ROW_MAJOR", "FLOAT32",
                      IF op \in OutputDtypeRequired THEN "FLOAT32" ELSE NoDataType)

\* One small tensor of every storage, layout and data type, with every output
\* data type.
DispatchInit ==
    \E op \in ConvertOps :
    \E storage \in StorageTypes, layout \in Layouts, dtype \in DataTypes :
    \E output_dtype \in DataTypes \cup {NoDataType} :
        /\ op \in OutputDtypeRequired => output_dtype # NoDataType
        /\ ConvertInputs(op, SmallGeometry(op), storage, layout, dtype, output_dtype)

ConvertIdle ==
    /\ cv_op = "none"
    /\ cv_tensor = NoTensor
    /\ cv_params = Params(1, 1, 1, 1, 1)
    /\ cv_output_dtype = NoDataType
    /\ cv_matrix = <<>>
    /\ cv_trace = <<>>
    /\ cv_result = NoResult
    /\ cv_pc = "idle"

\* The call returns or throws: what the caller is left with.
Returns(res) ==
    /\ cv_result' = IF res.ok THEN [ok |-> TRUE, tensor |-> res.tensor]
                    ELSE [ok |-> FALSE, error |-> res.error]
    /\ cv_trace' = res.steps
    /\ cv_matrix' = res.matrices
    /\ cv_pc' = "done"
    /\ UNCHANGED <<cv_op, cv_tensor, cv_params, cv_output_dtype>>
    /\ ConvertFrame

ConvertWeightTiled ==
    /\ cv_pc = "input"
    /\ cv_op = "tiled"
    /\ Returns(convert_conv_weight_tensor_to_tiled_layout(
                   cv_tensor, cv_params, cv_output_dtype))

ConvertWeightBlockSharded ==
    /\ cv_pc = "input"
    /\ cv_op = "block_sharded"
    /\ Returns(convert_conv_weight_tensor_to_tiled_layout_block_sharded(
                   cv_tensor, cv_params, cv_output_dtype))

\* The build of the special padding routine keeps its assert or, under
\* NDEBUG, drops it.
ConvertWeightSpecialPadding ==
    /\ cv_pc = "input"
    /\ cv_op = "special_padding"
    /\ \E ndebug \in BOOLEAN :
          Returns(convert_conv_weight_tensor_to_special_padding_tiled_layout(
                      cv_tensor, cv_params @@ [ndebug |-> ndebug], cv_output_dtype))

ConvertBiasBlockSharded ==
    /\ cv_pc = "input"
    /\ cv_op = "bias_block_sharded"
    /\ Returns(convert_conv_bias_tensor_to_tiled_layout_block_sharded(
                   cv_tensor, cv_params, cv_output_dtype))

\* The build traps on a division by zero, or its division yields zero.
ConvertGrouped ==
    /\ cv_pc = "input"
    /\ cv_op = "grouped"
    /\ \E div_traps \in BOOLEAN :
          Returns(convert_conv_weight_tensor_to_grouped_layout(
                      cv_tensor, cv_params @@ [div_traps |-> div_traps], cv_output_dtype))

ConvertDepthwise ==
    /\ cv_pc = "input"
    /\ cv_op = "depthwise"
    /\ Returns(convert_conv_weight_tensor_to_depthwise_layout(
                   cv_tensor, cv_params, cv_output_dtype))

\* ------------------------------------------- multi-device storage, shards
\* A buffer on a device, and a buffer on the host.
NoBuffer == [id |-> 0]
DeviceBuffer(id, device) == [id |-> id, device |-> device]
HostBuffer(id) == [id |-> id]

Tile == <<TILE_HEIGHT, TILE_WIDTH>>

BadOptionalAccess == "std::bad_optional_access"
UnsupportedStorageInsert == "Unsupported storage in insert_buffer_and_shape_for_device"
NotMultiDevice == "Tensor is not a multi-device tensor"
DeviceNotDeclared == "device is not one of the devices of the storage"
BufferIndexOutOfRange == "buffer index is not one of the shards of the storage"
NoBufferForDevice == "no buffer held for the device"

\* MultiDeviceStorage created for the devices listed, nothing populated yet.
MultiDeviceStorage(ordered_device_ids, strategy) ==
    [strategy |-> strategy, ordered_device_ids |-> ordered_device_ids,
     buffers |-> <<>>, shapes |-> <<>>]

\* MultiDeviceHostStorage created with n shards, nothing populated yet.
MultiDeviceHostStorage(n, strategy) ==
    [strategy |-> strategy,
     buffers |-> [i \in 0..(n - 1) |-> NoBuffer],
     shapes |-> [i \in 0..(n - 1) |-> <<>>]]

\* MultiDeviceStorage::insert_buffer_and_shape_for_device: the pair is held
\* for the device; a device the storage was not created for is a fatal error.
MultiDeviceStorage_insert_buffer_and_shape_for_device(s, device, buffer, shape) ==
    IF device \notin Range(s.ordered_device_ids)
    THEN [ok |-> FALSE, error |-> DeviceNotDeclared]
    ELSE [ok |-> TRUE,
          storage |-> [s EXCEPT !.buffers = (device :> buffer) @@ @,
                                !.shapes = (device :> shape) @@ @]]

\* MultiDeviceHostStorage::insert_buffer_and_shape_for_device: the pair is
\* held at the buffer index; an index past the shards is a fatal error.
MultiDeviceHostStorage_insert_buffer_and_shape_for_device(s, buffer_index, buffer, shape) ==
    IF buffer_index \notin DOMAIN s.buffers
    THEN [ok |-> FALSE, error |-> BufferIndexOutOfRange]
    ELSE [ok |-> TRUE,
          storage |-> [s EXCEPT !.buffers[buffer_index] = buffer,
                                !.shapes[buffer_index] = shape]]

\* get_buffer_for_device and get_tensor_shape_for_device.
MultiDeviceStorage_has_buffer_for_device(s, device) == device \in DOMAIN s.buffers

\* num_buffers() of the two multi-device storages.
MultiDeviceStorage_num_buffers(s) == Cardinality(DOMAIN s.buffers)
MultiDeviceHostStorage_num_buffers(s) == Cardinality(DOMAIN s.buffers)

\* std::get<Alternative>(shard.tensor_attributes->storage).get_buffer()
StorageGetBuffer(alternative, shard) ==
    IF shard.storage = alternative
    THEN [ok |-> TRUE, buffer |-> shard.buffer]
    ELSE [ok |-> FALSE, error |-> BadVariantAccess]

\* ------------------------------------- insert_buffer_and_shape_for_device
\* std::nullopt as buffer_index.
NoIndex == -1

Modified(t, storage) == [ok |-> TRUE, tensor |-> [t EXCEPT !.s = storage]]
Throws(msg) == [ok |-> FALSE, error |-> msg]

\* The result of the storage's own insert, carried to the tensor.
Inserted(t, res) == IF res.ok THEN Modified(t, res.storage) ELSE Throws(res.error)

\* Variant: the shape handed on is empty.
ShardShape_Empty(shard) == <<>>

\* shard.tensor_attributes->tensor_spec.shape()
ShardShape(shard) == shard.shape

\* The two arguments that can throw in the host branch, buffer_index.value()
\* and std::get<OwnedStorage>, are evaluated in an order the build chooses:
\* value_first tells which one is evaluated first.
insert_buffer_and_shape_for_device(target_device, shard, tensor_to_modify, buffer_index, value_first) ==
    LET s == tensor_to_modify.s
        owned == StorageGetBuffer("OWNED", shard)
        device == StorageGetBuffer("DEVICE", shard)
    IN CASE tensor_to_modify.storage = "MULTI_DEVICE_HOST" ->
              IF buffer_index = NoIndex /\ (value_first \/ owned.ok)
              THEN Throws(BadOptionalAccess)
              ELSE IF ~owned.ok
              THEN Throws(BadVariantAccess)
              ELSE Inserted(tensor_to_modify,
                       MultiDeviceHostStorage_insert_buffer_and_shape_for_device(
                           s, buffer_index, owned.buffer, ShardShape(shard)))
         [] tensor_to_modify.storage = "MULTI_DEVICE" ->
              IF ~device.ok
              THEN Throws(BadVariantAccess)
              ELSE Inserted(tensor_to_modify,
                       MultiDeviceStorage_insert_buffer_and_shape_for_device(
                           s, target_device, device.buffer, ShardShape(shard)))
         [] tensor_to_modify.storage = "OWNED" ->
              IF ~owned.ok THEN Throws(BadVariantAccess)
              ELSE Modified(tensor_to_modify, [buffer |-> owned.buffer])
         [] tensor_to_modify.storage = "DEVICE" ->
              IF ~device.ok THEN Throws(BadVariantAccess)
              ELSE Modified(tensor_to_modify, [buffer |-> device.buffer])
         [] OTHER -> Throws(UnsupportedStorageInsert)

\* ---------------------------------------------------- get_shard_for_device
ShardTensor(storage, buffer, shape, t) ==
    [storage |-> storage, dtype |-> t.dtype, layout |-> t.layout, tile |-> t.tile,
     shape |-> shape, s |-> [buffer |-> buffer]]

\* Variant: the shard carries the shape of the whole tensor.
get_shard_for_device_ParentShape(t, target_device, buffer_index) ==
    CASE t.storage = "MULTI_DEVICE" ->
              IF ~MultiDeviceStorage_has_buffer_for_device(t.s, target_device)
              THEN Throws(NoBufferForDevice)
              ELSE [ok |-> TRUE,
                    tensor |-> ShardTensor("DEVICE", t.s.buffers[target_device],
                                           t.shape, t)]
      [] t.storage = "MULTI_DEVICE_HOST" ->
              IF buffer_index = NoIndex THEN Throws(BadOptionalAccess)
              ELSE IF buffer_index \notin DOMAIN t.s.buffers
              THEN Throws(BufferIndexOutOfRange)
              ELSE [ok |-> TRUE,
                    tensor |-> ShardTensor("OWNED", t.s.buffers[buffer_index],
                                           t.shape, t)]
      [] OTHER -> [ok |-> TRUE, tensor |-> t]

get_shard_for_device(t, target_device, buffer_index) ==
    CASE t.storage = "MULTI_DEVICE" ->
              IF ~MultiDeviceStorage_has_buffer_for_device(t.s, target_device)
              THEN Throws(NoBufferForDevice)
              ELSE [ok |-> TRUE,
                    tensor |-> ShardTensor("DEVICE", t.s.buffers[target_device],
                                           t.s.shapes[target_device], t)]
      [] t.storage = "MULTI_DEVICE_HOST" ->
              IF buffer_index = NoIndex THEN Throws(BadOptionalAccess)
              ELSE IF buffer_index \notin DOMAIN t.s.buffers
              THEN Throws(BufferIndexOutOfRange)
              ELSE [ok |-> TRUE,
                    tensor |-> ShardTensor("OWNED", t.s.buffers[buffer_index],
                                           t.s.shapes[buffer_index], t)]
      [] OTHER -> [ok |-> TRUE, tensor |-> t]

\* ------------------------------------------ get_devices, num_buffers_in_tensor
\* Variant: the devices come out in reverse order.
get_devices_Reversed(t) ==
    IF t.storage = "MULTI_DEVICE"
    THEN LET ids == t.s.ordered_device_ids
         IN IF \E i \in 1..Len(ids) :
                  ~MultiDeviceStorage_has_buffer_for_device(t.s, ids[i])
            THEN Throws(NoBufferForDevice)
            ELSE [ok |-> TRUE,
                  devices |-> [i \in 1..Len(ids) |->
                                 t.s.buffers[ids[Len(ids) + 1 - i]].device]]
    ELSE Throws(NotMultiDevice)

get_devices(t) ==
    IF t.storage = "MULTI_DEVICE"
    THEN LET ids == t.s.ordered_device_ids
         IN IF \E i \in 1..Len(ids) :
                  ~MultiDeviceStorage_has_buffer_for_device(t.s, ids[i])
            THEN Throws(NoBufferForDevice)
            ELSE [ok |-> TRUE,
                  devices |-> [i \in 1..Len(ids) |-> t.s.buffers[ids[i]].device]]
    ELSE Throws(NotMultiDevice)

num_buffers_in_tensor(t) ==
    CASE t.storage = "MULTI_DEVICE" -> MultiDeviceStorage_num_buffers(t.s)
      [] t.storage = "MULTI_DEVICE_HOST" ->
              MultiDeviceHostStorage_num_buffers(t.s)
      [] OTHER -> 1

\* ---------------------------------------------- callers of the storage calls
\* Tensors drawn: multi-device storage created for one or two devices in some
\* order, multi-device host storage created with up to MaxHostShards shards,
\* nothing populated yet, and tensors of one buffer.
StorageTensor(storage, dtype, layout, shape, s) ==
    [storage |-> storage, dtype |-> dtype, layout |-> layout, tile |-> Tile,
     shape |-> shape, s |-> s]

StorageTensors ==
    { StorageTensor("MULTI_DEVICE", sp.dtype, sp.layout, sp.shape,
                    MultiDeviceStorage(o, g)) :
        sp \in TensorSpecs, g \in Strategies,
        o \in UNION { DeviceOrders(n) : n \in 1..2 } }
    \cup
    { StorageTensor("MULTI_DEVICE_HOST", sp.dtype, sp.layout, sp.shape,
                    MultiDeviceHostStorage(n, g)) :
        sp \in TensorSpecs, g \in Strategies, n \in 1..MaxHostShards }
    \cup
    { StorageTensor(st, sp.dtype, sp.layout, sp.shape, [buffer |-> HostBuffer(1)]) :
        sp \in TensorSpecs, st \in {"OWNED", "BORROWED"} }
    \cup
    { StorageTensor("DEVICE", sp.dtype, sp.layout, sp.shape,
                    [buffer |-> DeviceBuffer(1, 0)]) : sp \in TensorSpecs }

\* Shards handed to insert: a buffer on the target device, or a host buffer,
\* owned or borrowed; the buffer numbered id comes with the shape <<id, 1>>.
ShardIds == {2, 3}
Shards(target_device) ==
    { StorageTensor("DEVICE", "UINT32", "ROW_MAJOR", <<id, 1>>,
                    [buffer |-> DeviceBuffer(id, target_device)]) : id \in ShardIds }
    \cup
    { StorageTensor(st, "UINT32", "ROW_MAJOR", <<id, 1>>, [buffer |-> HostBuffer(id)]) :
        id \in ShardIds, st \in {"OWNED", "BORROWED"} }

\* The shard as the storage calls see it: its storage kind, buffer and shape.
AsShard(t) == [storage |-> t.storage, buffer |-> t.s.buffer, shape |-> t.shape]

\* The buffer indices a caller passes: none, one of the shards, or one past.
BufferIndices(t) ==
    IF t.storage = "MULTI_DEVICE_HOST"
    THEN {NoIndex} \cup (0..MultiDeviceHostStorage_num_buffers(t.s))
    ELSE {NoIndex}

\* The devices a caller passes: any device for multi-device storage.
TargetDevices(t) == IF t.storage = "MULTI_DEVICE" THEN DeviceIds ELSE {0}

NoCall == [name |-> "none"]
NoInsert == [target_device |-> -1]

StorageInit ==
    /\ st_tensor \in StorageTensors
    /\ st_prev = st_tensor
    /\ st_op = NoCall
    /\ st_result = NoResult
    /\ st_inserted = NoInsert
    /\ st_inserts = 0
    /\ st_pc = "ready"

StorageIdle ==
    /\ st_tensor = NoTensor
    /\ st_prev = NoTensor
    /\ st_op = NoCall
    /\ st_result = NoResult
    /\ st_inserted = NoInsert
    /\ st_inserts = 0
    /\ st_pc = "idle"

Call(name, target_device, buffer_index, shard) ==
    [name |-> name, target_device |-> target_device, buffer_index |-> buffer_index,
     shard |-> shard]

InsertBufferAndShape ==
    /\ st_pc = "ready"
    /\ st_inserts < MaxInserts
    /\ \E target_device \in TargetDevices(st_tensor) :
       \E buffer_index \in BufferIndices(st_tensor) :
       \E shard \in Shards(target_device) :
       \E value_first \in BOOLEAN :
          LET res == insert_buffer_and_shape_for_device(
                         target_device, AsShard(shard), st_tensor, buffer_index,
                         value_first)
          IN /\ st_tensor' = IF res.ok THEN res.tensor ELSE st_tensor
             /\ st_result' = IF res.ok THEN [ok |-> TRUE] ELSE res
             /\ st_inserted' = IF res.ok
                               THEN Call("insert", target_device, buffer_index,
                                         AsShard(shard))
                               ELSE st_inserted
             /\ st_op' = Call("insert_buffer_and_shape_for_device", target_device,
                              buffer_index, AsShard(shard))
    /\ st_prev' = st_tensor
    /\ st_inserts' = st_inserts + 1
    /\ UNCHANGED st_pc
    /\ StorageFrame

\* A call that only reads the tensor.
Asks(call, res) ==
    /\ st_op' = call
    /\ st_result' = res
    /\ st_prev' = st_tensor
    /\ UNCHANGED <<st_tensor, st_inserted, st_inserts, st_pc>>
    /\ StorageFrame

GetShardForDevice ==
    /\ st_pc = "ready"
    /\ \E target_device \in TargetDevices(st_tensor) :
       \E buffer_index \in BufferIndices(st_tensor) :
          Asks(Call("get_shard_for_device", target_device, buffer_index, NoTensor),
               get_shard_for_device(st_tensor, target_device, buffer_index))

GetDevices ==
    /\ st_pc = "ready"
    /\ Asks(Call("get_devices", -1, NoIndex, NoTensor), get_devices(st_tensor))

NumBuffersInTensor ==
    /\ st_pc = "ready"
    /\ Asks(Call("num_buffers_in_tensor", -1, NoIndex, NoTensor),
            [ok |-> TRUE, count |-> num_buffers_in_tensor(st_tensor)])

\* -------------------------------------------------------------- get_2d_shape
\* Variant: the first dimension is left out of the height.
get_2d_shape_DropsFirst(shape) ==
    [height |-> SeqProduct(shape, 2) \div shape[Len(shape)],
     width |-> shape[Len(shape)]]

\* shape[-1] is the last dimension; the width is not zero here.
get_2d_shape(shape) ==
    LET width == shape[Len(shape)]
        height == volume(shape) \div width
    IN [height |-> height, width |-> width]

\* Shapes of every rank from 1 and every small dimension, zero included.
SimpleShapes == UNION { [1..k -> 0..MaxDim] : k \in 1..MaxRank }

Shape2dInit ==
    /\ sd_simple_shape \in SimpleShapes
    /\ sd_shape = [height |-> 0, width |-> 0]
    /\ sd_shard_shape \in [height : 1..MaxShardDim, width : 1..MaxShardDim]
    /\ sd_result = NoDivision
    /\ sd_pc = "shape"

\* A zero width makes the division trap, or yield zero, by the build.
Get2dShape ==
    /\ sd_pc = "shape"
    /\ IF sd_simple_shape[Len(sd_simple_shape)] # 0
       THEN /\ sd_shape' = get_2d_shape(sd_simple_shape)
            /\ sd_pc' = "input"
       ELSE \E div_traps \in BOOLEAN :
              /\ sd_shape' = [height |-> 0, width |-> 0]
              /\ sd_pc' = IF div_traps THEN "trapped" ELSE "input"
    /\ UNCHANGED <<sd_simple_shape, sd_shard_shape, sd_result>>
    /\ ShardFrame

\* --------------------------------------------------------------- specifications
Init ==
    BorrowInit /\ ReshapeIdle /\ ShardIdle /\ TransformIdle /\ ConvertIdle /\ StorageIdle
Next == CopyBorrowed \/ Enqueue \/ WorkerExec \/ CallerMutate
Spec == Init /\ [][Next]_vars

InitReshape ==
    ReshapeInit /\ BorrowIdle /\ ShardIdle /\ TransformIdle /\ ConvertIdle /\ StorageIdle
NextReshape == InferDims
SpecReshape == InitReshape /\ [][NextReshape]_vars

InitShard ==
    ShardInit /\ BorrowIdle /\ ReshapeIdle /\ TransformIdle /\ ConvertIdle /\ StorageIdle
NextShard == ComputeShardDivision
SpecShard == InitShard /\ [][NextShard]_vars

InitShape2d ==
    Shape2dInit /\ BorrowIdle /\ ReshapeIdle /\ TransformIdle /\ ConvertIdle /\ StorageIdle
NextShape2d == Get2dShape \/ ComputeShardDivision
SpecShape2d == InitShape2d /\ [][NextShape2d]_vars

InitTransform ==
    TransformInit /\ BorrowIdle /\ ReshapeIdle /\ ShardIdle /\ ConvertIdle /\ StorageIdle
NextTransform ==
    \/ TransformBegin \/ TransformCall \/ TransformReturn
    \/ ApplyBegin \/ ApplyCall \/ ApplyReturn
SpecTransform == InitTransform /\ [][NextTransform]_vars

InitConvert ==
    RepackInit /\ BorrowIdle /\ ReshapeIdle /\ ShardIdle /\ TransformIdle /\ StorageIdle
NextConvert ==
    \/ ConvertWeightTiled
    \/ ConvertWeightSpecialPadding
    \/ ConvertWeightBlockSharded
    \/ ConvertBiasBlockSharded
    \/ ConvertGrouped
    \/ ConvertDepthwise
SpecConvert == InitConvert /\ [][NextConvert]_vars

InitDispatch ==
    DispatchInit /\ BorrowIdle /\ ReshapeIdle /\ ShardIdle /\ TransformIdle /\ StorageIdle
SpecDispatch == InitDispatch /\ [][NextConvert]_vars

InitStorage ==
    StorageInit /\ BorrowIdle /\ ReshapeIdle /\ ShardIdle /\ TransformIdle /\ ConvertIdle
NextStorage ==
    \/ InsertBufferAndShape
    \/ GetShardForDevice
    \/ GetDevices
    \/ NumBuffersInTensor
SpecStorage == InitStorage /\ [][NextStorage]_vars

\* The calls that dispatch on the storage of a tensor: the conversions, and the
\* shard calls.
InitUnsupported == InitDispatch \/ InitStorage
NextUnsupported == NextConvert \/ NextStorage
SpecUnsupported == InitUnsupported /\ [][NextUnsupported]_vars

\* The calls that build a tensor from a tensor: the copy for a worker, transform
\* and apply, and the conversions.
InitFrame == Init \/ InitTransform \/ InitConvert
NextFrame == Next \/ NextTransform \/ NextConvert
SpecFrame == InitFrame /\ [][NextFrame]_vars

\* ======================================================================= claims
Returned1 == pc \in {"copied", "enqueued", "done"}
MustCopy ==
    /\ worker_mode = "ASYNCHRONOUS"
    /\ tensor.storage = "BORROWED"
    /\ tensor.num_shards_to_be_populated <= 1

\* C1: for an asynchronous worker and a Borrowed tensor with at most one shard
\* to be populated, the returned tensor has Owned storage in a buffer allocated
\* by the call, holding the elements the borrowed buffer had at the call,
\* position by position, with the element type and the tensor spec of the input.
C1_BorrowedCopiedToOwned ==
    (Returned1 /\ MustCopy) =>
        /\ passed.storage = "OWNED"
        /\ passed.buffer # tensor.buffer
        /\ Len(heap) = 2
        /\ passed.buffer = Len(heap)
        /\ heap[passed.buffer].etype = heap[tensor.buffer].etype
        /\ Len(heap[passed.buffer].data) = Len(at_call)
        /\ \A i \in 1..Len(at_call) : heap[passed.buffer].data[i] = at_call[i]
        /\ passed.spec = tensor.spec

C1_Witness ==
    /\ pc = "copied"
    /\ MustCopy
    /\ Len(at_call) = MaxLen
    /\ passed.storage = "OWNED"
    /\ heap[passed.buffer].data = at_call

\* C2: for an asynchronous worker and a single-shard Borrowed tensor, what is
\* enqueued is the owned copy and never the borrowed memory, and whatever the
\* caller writes to its buffer after the copy returned, the worker reads the
\* contents the buffer had at the copy.
C2_WorkerReadsCopy ==
    MustCopy =>
        /\ \A k \in 1..Len(queue) :
              queue[k].storage = "OWNED" /\ queue[k].buffer # tensor.buffer
        /\ pc = "done" => worker_read = at_call

C2_Witness ==
    /\ pc = "done"
    /\ MustCopy
    /\ writes > 0
    /\ heap[tensor.buffer].data # at_call
    /\ worker_read = at_call

\* C3: with a SYNCHRONOUS worker or more than one shard to be populated the
\* input tensor itself is returned, whatever its storage, and nothing is
\* allocated; a tensor whose storage is not Borrowed is returned as it is in
\* every mode.
C3_SkipReturnsInput ==
    Returned1 =>
        /\ (worker_mode = "SYNCHRONOUS" \/ tensor.num_shards_to_be_populated > 1)
              => (passed = tensor /\ Len(heap) = 1)
        /\ tensor.storage # "BORROWED" => (passed = tensor /\ Len(heap) = 1)

C3_Witness ==
    /\ pc = "copied"
    /\ worker_mode = "ASYNCHRONOUS"
    /\ tensor.storage = "BORROWED"
    /\ tensor.num_shards_to_be_populated > 1
    /\ passed = tensor

\* n is the quotient a / b rounded up.
IsCeilDiv(n, a, b) == n * b >= a /\ (n - 1) * b < a

\* last is d mod s when s does not divide d, and s when it does.
IsLastShard(last, d, s) ==
    IF \E q \in 0..d : q * s = d
    THEN last = s
    ELSE /\ 0 < last
         /\ last < s
         /\ \E q \in 0..d : q * s + last = d

\* C4: compute_shard_division_spec returns num_shards = ceil(dim / shard) and
\* last_shard = dim mod shard, or the full shard size when the remainder is 0,
\* for height and for width; 100 by 32 gives 4 shards, the last of 4, and 64 by
\* 32 gives 2 shards, the last of 32.
C4_ShardDivision ==
    sd_pc = "done" =>
        /\ IsCeilDiv(sd_result.num_shards_height, sd_shape.height, sd_shard_shape.height)
        /\ IsLastShard(sd_result.last_shard_height, sd_shape.height, sd_shard_shape.height)
        /\ IsCeilDiv(sd_result.num_shards_width, sd_shape.width, sd_shard_shape.width)
        /\ IsLastShard(sd_result.last_shard_width, sd_shape.width, sd_shard_shape.width)
        /\ (sd_shape.height = 100 /\ sd_shard_shape.height = 32)
              => (sd_result.num_shards_height = 4 /\ sd_result.last_shard_height = 4)
        /\ (sd_shape.height = 64 /\ sd_shard_shape.height = 32)
              => (sd_result.num_shards_height = 2 /\ sd_result.last_shard_height = 32)

C4_Witness ==
    /\ sd_pc = "done"
    /\ sd_shape = [height |-> 64, width |-> 100]
    /\ sd_shard_shape = [height |-> 32, width |-> 32]
    /\ sd_result = [num_shards_height |-> 2, last_shard_height |-> 32,
                    num_shards_width |-> 4, last_shard_width |-> 4]

\* A uint32_t compared with a small natural number.
U32IsZero(u) == u.hi = 0 /\ u.lo = 0
U32Exceeds(u, v) == u.hi > 0 \/ u.lo > v
U32IsInt(u, x) == x >= 0 /\ u.hi = x \div Half /\ u.lo = x % Half

RECURSIVE LowProduct(_)
LowProduct(dims) ==
    IF dims = <<>> THEN 1 ELSE Head(dims).lo * LowProduct(Tail(dims))

\* The product of the dimensions is v (0 <= v < 2^16): a zero factor makes it 0,
\* a factor above v makes it larger than v, and otherwise every factor is small.
ProductIs(dims, v) ==
    IF \E i \in 1..Len(dims) : U32IsZero(dims[i])
    THEN v = 0
    ELSE IF \E i \in 1..Len(dims) : U32Exceeds(dims[i], v)
         THEN FALSE
         ELSE LowProduct(dims) = v

RECURSIVE IntProduct(_)
IntProduct(dims) ==
    IF dims = <<>> THEN 1 ELSE Head(dims) * IntProduct(Tail(dims))

Minus1Count(shape) == Cardinality({ i \in 1..Len(shape) : shape[i] = -1 })
HasZeroDim(shape) == \E i \in 1..Len(shape) : shape[i] = 0
OtherDims(shape) == SelectSeq(shape, LAMBDA d : d # -1)

\* C5: whenever infer_dims_for_reshape returns a shape, for any requested
\* dimension values, negative ones other than -1 included, the product of the
\* returned dimensions is the tensor's logical volume.
C5_ReturnedVolumeIsOldVolume ==
    (rs_pc = "done" /\ rs_result.ok) => ProductIs(rs_result.shape, rs_old_volume)

\* C6: with exactly one -1 and no zero-sized dimension, the result is the
\* requested shape with the -1 replaced by old_volume divided by the product of
\* the other dimensions and every other dimension unchanged, and the call fails
\* with 'Invalid arguments to reshape' when that product does not divide
\* old_volume.
C6_WildcardResolved ==
    (rs_pc = "done" /\ Minus1Count(rs_shape) = 1 /\ ~HasZeroDim(rs_shape)) =>
        LET others == IntProduct(OtherDims(rs_shape))
        IN IF \E q \in (0 - rs_old_volume)..rs_old_volume : q * others = rs_old_volume
           THEN /\ rs_result.ok
                /\ Len(rs_result.shape) = Len(rs_shape)
                /\ \A i \in 1..Len(rs_shape) :
                      IF rs_shape[i] = -1
                      THEN \E q \in (0 - rs_old_volume)..rs_old_volume :
                              /\ q * others = rs_old_volume
                              /\ U32IsInt(rs_result.shape[i], q)
                      ELSE U32IsInt(rs_result.shape[i], rs_shape[i])
           ELSE /\ ~rs_result.ok
                /\ rs_result.error = InvalidReshape

\* C7: a requested shape with more than one -1 makes the call fail with the
\* more-than-one--1 error and return no shape, whatever the other dimensions and
\* the tensor's volume.
C7_TwoWildcardsFail ==
    (rs_pc = "done" /\ Minus1Count(rs_shape) > 1) =>
        (~rs_result.ok /\ rs_result.error = MoreThanOneMinus1)

C7_Witness ==
    /\ rs_pc = "done"
    /\ rs_shape = <<-1, 0, -1>>
    /\ rs_old_volume = 0
    /\ ~rs_result.ok
    /\ rs_result.error = MoreThanOneMinus1

\* C8: a single -1 requested together with a zero-sized dimension makes the call
\* fail with the ambiguity error and return no shape, for every volume of the
\* tensor: the wildcard is resolved to no value.
C8_WildcardWithZeroFails ==
    (rs_pc = "done" /\ Minus1Count(rs_shape) = 1 /\ HasZeroDim(rs_shape)) =>
        (~rs_result.ok /\ rs_result.error = AmbiguousMinus1)

C8_Witness ==
    /\ rs_pc = "done"
    /\ rs_shape = <<0, -1>>
    /\ rs_old_volume = 0
    /\ ~rs_result.ok
    /\ rs_result.error = AmbiguousMinus1

\* C9: with no -1 in the requested shape the call fails when the product of the
\* requested dimensions differs from the tensor's logical volume, and otherwise
\* returns exactly the requested dimensions, in order and unchanged.
C9_NoWildcardExact ==
    (rs_pc = "done" /\ Minus1Count(rs_shape) = 0) =>
        IF IntProduct(rs_shape) # rs_old_volume
        THEN ~rs_result.ok
        ELSE /\ rs_result.ok
             /\ Len(rs_result.shape) = Len(rs_shape)
             /\ \A i \in 1..Len(rs_shape) : U32IsInt(rs_result.shape[i], rs_shape[i])

\* The shards of a multi-device tensor, read off its storage in its order.
NumShards(t) ==
    IF t.storage = "MULTI_DEVICE" THEN Len(t.ordered_device_ids) ELSE Len(t.buffers)
ShardData(t, i) ==
    IF t.storage = "MULTI_DEVICE" THEN t.buffers[t.ordered_device_ids[i]] ELSE t.buffers[i]

\* C10: transform and apply call the per-shard function exactly once on each of
\* the n shards, in shard order; transform returns a tensor of n shards whose
\* i-th shard is the function applied to the i-th input shard, on the same
\* devices in the same order, with the input's storage type and distribution
\* configuration; apply reassembles nothing.
C10_TransformPreservesOrder ==
    LET n == NumShards(tf_tensor)
    IN /\ tf_pc \in {"loop", "done"} =>
             \A k \in 1..Len(tf_calls) : tf_calls[k] = k
       /\ tf_pc = "done" =>
             /\ tf_calls = [k \in 1..n |-> k]
             /\ tf_op = "transform" =>
                   /\ tf_result.storage = tf_tensor.storage
                   /\ tf_result.strategy = tf_tensor.strategy
                   /\ tf_result.ordered_device_ids = tf_tensor.ordered_device_ids
                   /\ NumShards(tf_result) = n
                   /\ \A i \in 1..n : ShardData(tf_result, i) = tf_fn[ShardData(tf_tensor, i)]
             /\ tf_op = "apply" =>
                   /\ tf_result = NoTensor
                   /\ tf_outputs = <<>>

C10_Witness ==
    /\ tf_pc = "done"
    /\ tf_op = "transform"
    /\ tf_tensor.storage = "MULTI_DEVICE"
    /\ tf_tensor.ordered_device_ids = <<2, 0, 1>>
    /\ tf_tensor.buffers = [d \in {0, 1, 2} |-> IF d = 2 THEN 1 ELSE 0]
    /\ tf_fn = [v \in ElemValues |-> 1 - v]
    /\ tf_result.ordered_device_ids = <<2, 0, 1>>
    /\ tf_result.buffers = [d \in {0, 1, 2} |-> IF d = 2 THEN 0 ELSE 1]

\* C11: transform over a tensor that is not a multi-device tensor calls the
\* function exactly once and returns what a direct call of the function on the
\* tensor returns: the same single storage kind, the same device, the same
\* distribution metadata, and no multi-device storage around it.
C11_SingleShardTransformIsDirectCall ==
    (tf_pc = "done" /\ tf_op = "transform" /\ tf_tensor.storage \in SingleStorageTypes) =>
        /\ tf_calls = <<1>>
        /\ tf_result = [tf_tensor EXCEPT !.buffers = <<tf_fn[tf_tensor.buffers[1]]>>]
        /\ tf_result.storage \in SingleStorageTypes
        /\ tf_result.strategy = tf_tensor.strategy

C11_Witness ==
    /\ tf_pc = "done"
    /\ tf_op = "transform"
    /\ tf_tensor.storage = "DEVICE"
    /\ tf_tensor.buffers = <<0>>
    /\ tf_fn = [v \in ElemValues |-> 1 - v]
    /\ tf_calls = <<1>>
    /\ tf_result.storage = "DEVICE"
    /\ tf_result.buffers = <<1>>

\* x is the smallest multiple of unit that is at least n.
IsSmallestMultiple(x, unit, n) ==
    /\ x % unit = 0
    /\ x >= n
    /\ x - n < unit

Converted(op) == cv_pc = "done" /\ cv_op = op /\ cv_result.ok

\* C13: the tile layout repack of a weight [K, C, R, S] fills a matrix whose
\* rows are the smallest multiple of in1_block_h * TILE_HEIGHT that is at least
\* C*R*S and whose columns are the smallest multiple of in1_block_w * TILE_WIDTH
\* that is at least K; element (k, c, r, s) is at row r*S*C + s*C + c, column k,
\* and every other position is zero.
C13_WeightTileLayout ==
    Converted("tiled") =>
        /\ Len(cv_matrix) = Len(cv_tensor.buffers)
        /\ \A i \in 1..Len(cv_matrix) :
            LET K == cv_tensor.shape[1]
                C == cv_tensor.shape[2]
                R == cv_tensor.shape[3]
                S == cv_tensor.shape[4]
                rows == cv_matrix[i].shape[3]
                cols == cv_matrix[i].shape[4]
                matrix == cv_matrix[i].buf
                input == cv_tensor.buffers[i].data
                Elements == (0..(K - 1)) \X (0..(C - 1)) \X (0..(R - 1)) \X (0..(S - 1))
                At(e) == (e[3] * S * C + e[4] * C + e[2]) * cols + e[1]
            IN /\ cv_matrix[i].shape[1] = 1 /\ cv_matrix[i].shape[2] = 1
               /\ IsSmallestMultiple(rows, cv_params.in1_block_h * TILE_HEIGHT, C * R * S)
               /\ IsSmallestMultiple(cols, cv_params.in1_block_w * TILE_WIDTH, K)
               /\ matrix.size = rows * cols
               /\ ~matrix.oob
               /\ \A e \in Elements :
                      BufferAt(matrix, At(e))
                          = input[e[1] * C * R * S + e[2] * R * S + e[3] * S + e[4]]
               /\ \A n \in (0..(matrix.size - 1)) \ { At(e) : e \in Elements } :
                      BufferAt(matrix, n) = 0

C13_Witness ==
    /\ Converted("tiled")
    /\ cv_tensor.shape = <<2, 2, 2, 2>>
    /\ cv_params.in1_block_h = 2
    /\ cv_params.in1_block_w = 1
    /\ cv_matrix[1].shape = <<1, 1, 64, 32>>
    /\ BufferAt(cv_matrix[1].buf, 7 * 32 + 1) = cv_tensor.buffers[1].data[15]
    /\ BufferAt(cv_matrix[1].buf, 8 * 32) = 0

\* C14: the block-sharded repack of a weight whose channel dimensions
\* num_channel_shards divides starts output-channel shard oc at column
\* oc * shard_width_padded and input-channel shard ic at row
\* ic * block_height_padded, both padded sizes whole tiles; the matrix is
\* num_channel_shards padded shards wide and high, and no tile holds elements
\* of two shards.
C14_BlockShardedTileAligned ==
    (/\ Converted("block_sharded")
     /\ cv_tensor.shape[1] % cv_params.num_channel_shards = 0
     /\ cv_tensor.shape[2] % cv_params.num_channel_shards = 0) =>
        \A i \in 1..Len(cv_matrix) :
            LET n == cv_params.num_channel_shards
                K == cv_tensor.shape[1]
                C == cv_tensor.shape[2]
                R == cv_tensor.shape[3]
                S == cv_tensor.shape[4]
                rows == cv_matrix[i].shape[3]
                cols == cv_matrix[i].shape[4]
                matrix == cv_matrix[i].buf
                input == cv_tensor.buffers[i].data
                shard_width == K \div n
                in_shard_width == C \div n
                shard_width_padded == cols \div n
                block_height_padded == rows \div n
                Elements == (0..(K - 1)) \X (0..(C - 1)) \X (0..(R - 1)) \X (0..(S - 1))
                oc(e) == e[1] \div shard_width
                ic(e) == e[2] \div in_shard_width
                Col(e) == oc(e) * shard_width_padded + (e[1] % shard_width)
                Row(e) == ic(e) * block_height_padded + e[3] * S * in_shard_width
                          + e[4] * in_shard_width + (e[2] % in_shard_width)
                TileOf(e) == <<Row(e) \div TILE_HEIGHT, Col(e) \div TILE_WIDTH>>
            IN /\ cols = n * shard_width_padded
               /\ rows = n * block_height_padded
               /\ IsSmallestMultiple(shard_width_padded, TILE_WIDTH, shard_width)
               /\ IsSmallestMultiple(block_height_padded, TILE_HEIGHT, in_shard_width * R * S)
               /\ matrix.size = rows * cols
               /\ ~matrix.oob
               /\ \A e \in Elements :
                    /\ BufferAt(matrix, Row(e) * cols + Col(e))
                          = input[e[1] * C * R * S + e[2] * R * S + e[3] * S + e[4]]
                    /\ Col(e) < (oc(e) + 1) * shard_width_padded
                    /\ Row(e) < (ic(e) + 1) * block_height_padded
               /\ \A e1 \in Elements : \A e2 \in Elements :
                    TileOf(e1) = TileOf(e2) => (oc(e1) = oc(e2) /\ ic(e1) = ic(e2))

C14_Witness ==
    /\ Converted("block_sharded")
    /\ cv_tensor.shape = <<2, 2, 2, 2>>
    /\ cv_params.num_channel_shards = 2
    /\ cv_matrix[1].shape = <<1, 1, 64, 64>>
    /\ BufferAt(cv_matrix[1].buf, 35 * 64 + 32) = cv_tensor.buffers[1].data[15]

\* The number of whole tiles that cover dim: ceil(dim / tile).
CeilOf(dim, tile) ==
    CHOOSE q \in 0..dim : q * tile >= dim /\ (q = 0 \/ (q - 1) * tile < dim)

IsPaddedDimension(padded, dim, tile) ==
    /\ padded = CeilOf(dim, tile) * tile
    /\ padded >= dim
    /\ padded % tile = 0
    /\ padded - dim < tile

\* C15: every padded dimension of the tile layout repack (matrix rows and
\* columns, block sizes in1_block_h * TILE_HEIGHT and in1_block_w * TILE_WIDTH)
\* and of the block-sharded repack (per-shard width and block height, one tile)
\* is ceil(dim / tile) * tile: at least the dimension, a multiple of the tile or
\* block size, and less than one tile or block above the dimension.
C15_PaddedDimensions ==
    /\ Converted("tiled") =>
          \A i \in 1..Len(cv_matrix) :
              /\ IsPaddedDimension(
                     cv_matrix[i].shape[3],
                     cv_tensor.shape[2] * cv_tensor.shape[3] * cv_tensor.shape[4],
                     cv_params.in1_block_h * TILE_HEIGHT)
              /\ IsPaddedDimension(cv_matrix[i].shape[4], cv_tensor.shape[1],
                                   cv_params.in1_block_w * TILE_WIDTH)
    /\ Converted("block_sharded") =>
          \A i \in 1..Len(cv_matrix) :
              LET n == cv_params.num_channel_shards
              IN /\ cv_matrix[i].shape[4] % n = 0
                 /\ cv_matrix[i].shape[3] % n = 0
                 /\ IsPaddedDimension(cv_matrix[i].shape[4] \div n,
                                      cv_tensor.shape[1] \div n, TILE_WIDTH)
                 /\ IsPaddedDimension(
                        cv_matrix[i].shape[3] \div n,
                        (cv_tensor.shape[2] \div n) * cv_tensor.shape[3] * cv_tensor.shape[4],
                        TILE_HEIGHT)

C15_Witness ==
    /\ Converted("block_sharded")
    /\ cv_tensor.shape = <<64, 2, 1, 1>>
    /\ cv_params.num_channel_shards = 2
    /\ cv_matrix[1].shape = <<1, 1, 64, 64>>

\* C12: the grouped conversion of a weight [O, Cg, H, W] with G groups, at
\* least one output channel per group, yields a row-major tensor of shape
\* [O, Cg*G, H, W] in which out[o, g*Cg + j, k, m] = in[o, j, k, m] with
\* g = min(o / (O / G), G - 1), and every other element is zero.
C12_GroupedZeroPad ==
    (Converted("grouped") /\ cv_tensor.shape[1] \div cv_params.num_groups >= 1) =>
        /\ Len(cv_matrix) = Len(cv_tensor.buffers)
        /\ ~is_multi_device_tensor(cv_tensor) =>
              /\ cv_result.tensor.shape = cv_matrix[1].shape
              /\ cv_result.tensor.buf = cv_matrix[1].buf
              /\ cv_result.tensor.layout = "ROW_MAJOR"
        /\ \A i \in 1..Len(cv_matrix) :
            LET G == cv_params.num_groups
                O == cv_tensor.shape[1]
                Cg == cv_tensor.shape[2]
                H == cv_tensor.shape[3]
                W == cv_tensor.shape[4]
                out == cv_matrix[i].buf
                input == cv_tensor.buffers[i].data
                Elements == (0..(O - 1)) \X (0..(Cg - 1)) \X (0..(H - 1)) \X (0..(W - 1))
                g(o) == IF o \div (O \div G) < G - 1 THEN o \div (O \div G) ELSE G - 1
                At(e) == ((e[1] * (Cg * G) + g(e[1]) * Cg + e[2]) * H + e[3]) * W + e[4]
            IN /\ cv_matrix[i].shape = <<O, Cg * G, H, W>>
               /\ out.size = O * Cg * G * H * W
               /\ ~out.oob
               /\ \A e \in Elements :
                      BufferAt(out, At(e)) = input[((e[1] * Cg + e[2]) * H + e[3]) * W + e[4]]
               /\ \A n \in (0..(out.size - 1)) \ { At(e) : e \in Elements } :
                      BufferAt(out, n) = 0

\* O = 4, Cg = 2, G = 2: four input channels; output channel 2 keeps its slice
\* at input-channel offset 2 and has zeros at offset 0.
C12_Witness ==
    /\ Converted("grouped")
    /\ cv_tensor.shape = <<4, 2, 1, 1>>
    /\ cv_params.num_groups = 2
    /\ cv_tensor.buffers[1].data[4] = 5
    /\ cv_result.tensor.shape = <<4, 4, 1, 1>>
    /\ BufferAt(cv_result.tensor.buf, 2 * 4 + 2) = 5
    /\ BufferAt(cv_result.tensor.buf, 2 * 4 + 3) = 6
    /\ BufferAt(cv_result.tensor.buf, 2 * 4) = 0
    /\ BufferAt(cv_result.tensor.buf, 1 * 4) = 3
    /\ BufferAt(cv_result.tensor.buf, 1 * 4 + 2) = 0

\* C16: the depthwise conversion of a weight [O, 1, H, W] yields a row-major
\* tensor of shape [O, act_block_h_ntiles * TILE_HEIGHT, H, W] in which
\* out[i, j, k, l] = in[i, 0, k, l] for every slot j.
C16_DepthwiseBroadcast ==
    (Converted("depthwise") /\ cv_tensor.shape[2] = 1) =>
        LET O == cv_tensor.shape[1]
            H == cv_tensor.shape[3]
            W == cv_tensor.shape[4]
            slots == cv_params.act_block_h_ntiles * TILE_HEIGHT
            out == cv_result.tensor.buf
            input == cv_tensor.buffers[1].data
        IN /\ cv_result.tensor.shape = <<O, slots, H, W>>
           /\ cv_result.tensor.layout = "ROW_MAJOR"
           /\ out.size = O * slots * H * W
           /\ ~out.oob
           /\ \A i \in 0..(O - 1), j \in 0..(slots - 1), k \in 0..(H - 1), l \in 0..(W - 1) :
                  BufferAt(out, ((i * slots + j) * H + k) * W + l)
                      = input[(i * H + k) * W + l]

C16_Witness ==
    /\ Converted("depthwise")
    /\ cv_tensor.shape = <<2, 1, 2, 2>>
    /\ cv_params.act_block_h_ntiles = 2
    /\ cv_result.tensor.shape = <<2, 64, 2, 2>>
    /\ cv_tensor.buffers[1].data[7] = 8
    /\ BufferAt(cv_result.tensor.buf, ((1 * 64 + 63) * 2 + 1) * 2 + 1) = 8


\* ------------------------------------------------ checks before the dispatch
\* The conversions that end in create_tensor_from_owned_buffer.
TiledOps == {"tiled", "special_padding", "block_sharded", "bias_block_sharded"}

\* The tensors of a result: the shards of a multi-device result, or the one
\* tensor returned.
ResultTensors ==
    IF ~cv_result.ok THEN {}
    ELSE IF "tensors" \in DOMAIN cv_result.tensor
    THEN { cv_result.tensor.tensors[i] : i \in DOMAIN cv_result.tensor.tensors }
    ELSE {cv_result.tensor}

\* Step k of the trace constructs a tensor.
IsTensorStep(k) == cv_trace[k][1] = "Tensor"

\* Step k constructs a tensor from the words packed out of a tiled float
\* tensor, three steps after that float tensor was built.
BuiltFromPackedFloats(k) ==
    /\ k >= 4
    /\ cv_trace[k][2] = "uint32_t"
    /\ cv_trace[k - 1] = <<"pack", cv_trace[k][3]>>
    /\ cv_trace[k - 2] = <<"to", "TILE">>
    /\ cv_trace[k - 3] = <<"Tensor", "float", "FLOAT32", "ROW_MAJOR">>

\* C17: a weight or bias tiled conversion asked for BFLOAT8_B or BFLOAT4_B on
\* an input whose data type is not FLOAT32 fails and returns no tensor, and no
\* conversion ever constructs a tensor of a packed data type from a buffer
\* that does not hold floats.
C17_PackedOnlyFromFloat32 ==
    cv_pc = "done" =>
        /\ (/\ cv_op \in TiledOps
            /\ cv_output_dtype \in PackedDataTypes
            /\ cv_tensor.dtype # "FLOAT32")
           => (/\ ~cv_result.ok
               /\ ResultTensors = {}
               /\ \A k \in DOMAIN cv_trace : ~IsTensorStep(k))
        /\ \A k \in DOMAIN cv_trace :
              (IsTensorStep(k) /\ cv_trace[k][3] \in PackedDataTypes)
              => (cv_trace[k][2] = "float" \/ BuiltFromPackedFloats(k))
        /\ \A t \in ResultTensors :
              t.dtype \in PackedDataTypes
              => (t.etype = "float"
                  \/ (/\ t.etype = "uint32_t"
                      /\ DOMAIN t.buf = {"packed", "floats"}
                      /\ t.buf.packed = t.dtype))

\* A UINT32 weight tensor on the host, asked for BFLOAT8_B, was turned down.
C17_Witness ==
    /\ cv_pc = "done"
    /\ cv_op = "tiled"
    /\ cv_tensor.storage = "OWNED"
    /\ cv_tensor.layout = "ROW_MAJOR"
    /\ cv_tensor.dtype = "UINT32"
    /\ cv_output_dtype = "BFLOAT8_B"
    /\ ~cv_result.ok
    /\ cv_result.error = Float32Required

\* C20: a conversion that goes through convert_tensor_to_tiled_layout_common
\* on an input whose layout is not ROW_MAJOR fails with the row-major
\* precondition and returns no tensor; nothing was dispatched and no repacking
\* routine ran.
C20_RowMajorRequired ==
    (cv_pc = "done" /\ cv_tensor.layout # "ROW_MAJOR")
    => /\ ~cv_result.ok
       /\ cv_result.error = RowMajorRequired
       /\ ResultTensors = {}
       /\ \A k \in DOMAIN cv_trace : cv_trace[k][1] \notin {"dispatch", "repack"}
       /\ cv_matrix = <<>>

\* A float tensor on the host in TILE layout was turned down.
C20_Witness ==
    /\ cv_pc = "done"
    /\ cv_op = "block_sharded"
    /\ cv_tensor.storage = "OWNED"
    /\ cv_tensor.layout = "TILE"
    /\ cv_tensor.dtype = "FLOAT32"
    /\ cv_output_dtype = NoDataType
    /\ cv_result = [ok |-> FALSE, error |-> RowMajorRequired]


\* ------------------------------------------------------ output data type
\* The data type asked of the conversion: the output data type given, else the
\* data type of the input.
RequestedDtype ==
    IF cv_output_dtype = NoDataType THEN cv_tensor.dtype ELSE cv_output_dtype

\* Tensor i of the result.
ResultTensor(i) ==
    IF "tensors" \in DOMAIN cv_result.tensor
    THEN cv_result.tensor.tensors[i]
    ELSE cv_result.tensor

\* tiled holds the elements of matrix in tile order: element n of the
\* row-major matrix sits at the tile position of n.
IsTileOrderOf(tiled, matrix) ==
    /\ DOMAIN tiled.elems
         = { TiledIndex(n, matrix.shape[4]) : n \in DOMAIN matrix.buf.elems }
    /\ \A n \in DOMAIN matrix.buf.elems :
          tiled.elems[TiledIndex(n, matrix.shape[4])] = matrix.buf.elems[n]

\* C18: create_tensor_from_owned_buffer on a float buffer with BFLOAT8_B or
\* BFLOAT4_B requested builds a FLOAT32 row-major tensor, converts it to TILE,
\* packs the tiled floats, in that order, and returns a TILE tensor of the
\* requested packed data type; for every other requested data type it builds
\* one row-major tensor of the requested data type and converts it to TILE,
\* and nothing else.
C18_OutputDtypePolicy ==
    (cv_pc = "done" /\ cv_op \in TiledOps /\ cv_result.ok) =>
        LET T == cv_trace[1][2]
            n == Len(cv_tensor.buffers)
            packing == T = "float" /\ RequestedDtype \in PackedDataTypes
            expected ==
                IF packing
                THEN << <<"Tensor", "float", "FLOAT32", "ROW_MAJOR">>,
                        <<"to", "TILE">>,
                        <<"pack", RequestedDtype>>,
                        <<"Tensor", "uint32_t", RequestedDtype, "TILE">> >>
                ELSE << <<"Tensor", T, RequestedDtype, "ROW_MAJOR">>,
                        <<"to", "TILE">> >>
            len == Len(expected) + 1
        IN /\ Len(cv_trace) = 1 + n * len
           /\ Len(cv_matrix) = n
           /\ \A i \in 1..n :
                LET from == 1 + (i - 1) * len
                    t == ResultTensor(i)
                IN /\ cv_trace[from + 1] = <<"repack", T>>
                   /\ SubSeq(cv_trace, from + 2, from + len) = expected
                   /\ t.layout = "TILE"
                   /\ t.dtype = RequestedDtype
                   /\ t.shape = cv_matrix[i].shape
                   /\ IF packing
                      THEN /\ t.etype = "uint32_t"
                           /\ t.buf.packed = RequestedDtype
                           /\ IsTileOrderOf(t.buf.floats, cv_matrix[i])
                      ELSE /\ t.etype = T
                           /\ IsTileOrderOf(t.buf, cv_matrix[i])

\* A float weight tensor was converted with BFLOAT8_B requested, and its
\* matrix has an element whose tile position differs from its row-major one.
C18_Witness ==
    /\ Converted("tiled")
    /\ cv_tensor.dtype = "FLOAT32"
    /\ cv_output_dtype = "BFLOAT8_B"
    /\ cv_result.tensor.dtype = "BFLOAT8_B"
    /\ cv_result.tensor.layout = "TILE"
    /\ \E n \in DOMAIN cv_matrix[1].buf.elems :
          TiledIndex(n, cv_matrix[1].shape[4]) # n


\* -------------------------------------------------------- dtype dispatch
\* The input data types the conversion has a routine for.
AcceptedDtypes(op) ==
    IF op \in TiledOps
    THEN {"BFLOAT16", "FLOAT32", "UINT32"}
    ELSE {"INT32", "FLOAT32", "BFLOAT16", "UINT16", "BFLOAT8_B", "UINT32", "BFLOAT4_B"}

\* The element type a routine is instantiated for, by input data type.
ElementTypeOf(dtype) ==
    CASE dtype = "BFLOAT16" -> "bfloat16"
      [] dtype = "FLOAT32" -> "float"
      [] dtype = "UINT32" -> "uint32_t"

\* The conversion hands a packed output data type to the common checks: the
\* grouped conversion replaces BFLOAT8_B by FLOAT32 first, the depthwise
\* conversion both packed types.
PackedAsked ==
    CASE cv_op \in TiledOps -> cv_output_dtype \in PackedDataTypes
      [] cv_op = "grouped" -> cv_output_dtype = "BFLOAT4_B"
      [] cv_op = "depthwise" -> FALSE

\* The layout check and the float32 check, which come before the lookup, pass.
ChecksBeforeLookupPass ==
    /\ cv_tensor.layout = "ROW_MAJOR"
    /\ PackedAsked => cv_tensor.dtype = "FLOAT32"

\* The dispatch of the four tiled conversions: exactly BFLOAT16, FLOAT32 and
\* UINT32 get a routine, and it is the one for the element type of the input.
TiledDispatch ==
    cv_op \in TiledOps =>
        /\ (cv_trace # <<>>) => cv_tensor.dtype \in {"BFLOAT16", "FLOAT32", "UINT32"}
        /\ (cv_tensor.dtype \in {"BFLOAT16", "FLOAT32", "UINT32"}
            /\ ChecksBeforeLookupPass)
           => /\ cv_trace # <<>>
              /\ cv_trace[1] = <<"dispatch", ElementTypeOf(cv_tensor.dtype)>>
              /\ \A k \in DOMAIN cv_trace :
                    cv_trace[k][1] = "repack"
                    => cv_trace[k][2] = ElementTypeOf(cv_tensor.dtype)
              /\ cv_tensor.storage \in {"OWNED", "BORROWED"} => Len(cv_trace) >= 2
              /\ cv_tensor.storage \in {"OWNED", "BORROWED"}
                 => cv_trace[2] = <<"repack", ElementTypeOf(cv_tensor.dtype)>>

\* C19 as stated: a conversion whose map has no entry for the input data type
\* fails with "Unsupported data type" and returns no tensor, whatever else the
\* input is; the four tiled conversions accept exactly BFLOAT16, FLOAT32 and
\* UINT32 and dispatch to the routine for that element type.
C19_UnmappedAlwaysUnsupported ==
    cv_pc = "done" =>
        /\ cv_tensor.dtype \notin AcceptedDtypes(cv_op)
           => (~cv_result.ok /\ cv_result.error = UnsupportedDataType)
        /\ TiledDispatch

\* C19: a conversion whose map has no entry for the input data type fails and
\* returns no tensor, nothing being dispatched; the failure is "Unsupported
\* data type" when the layout check and the float32 check before the lookup
\* pass, the row-major failure when the input is not ROW_MAJOR, and the
\* float32 failure when it is ROW_MAJOR and a packed output is asked. The four
\* tiled conversions accept exactly BFLOAT16, FLOAT32 and UINT32 and dispatch
\* an accepted input that passes the two checks to the routine for its
\* element type.
C19_DtypeDispatch ==
    cv_pc = "done" =>
        /\ cv_tensor.dtype \notin AcceptedDtypes(cv_op)
           => /\ ~cv_result.ok
              /\ ResultTensors = {}
              /\ cv_trace = <<>>
              /\ cv_result.error =
                    IF cv_tensor.layout # "ROW_MAJOR" THEN RowMajorRequired
                    ELSE IF PackedAsked THEN Float32Required
                    ELSE UnsupportedDataType
        /\ TiledDispatch

\* A row-major UINT16 weight tensor, no output data type given, was turned
\* down by the lookup.
C19_Witness ==
    /\ cv_pc = "done"
    /\ cv_op = "tiled"
    /\ cv_tensor.storage = "OWNED"
    /\ cv_tensor.layout = "ROW_MAJOR"
    /\ cv_tensor.dtype = "UINT16"
    /\ cv_output_dtype = NoDataType
    /\ cv_result = [ok |-> FALSE, error |-> UnsupportedDataType]
    /\ cv_trace = <<>>


\* ------------------------------------------------- borrowed storage and workers
\* C26: for a worker in asynchronous mode, the tensor returned by
\* copy_borrowed_tensor_in_async_mode never has Borrowed storage, whatever the
\* input tensor.
C26_AsyncNeverBorrowed ==
    (pc \in {"copied", "enqueued", "done"} /\ worker_mode = "ASYNCHRONOUS")
    => passed.storage # "BORROWED"


\* ------------------------------------------------------- shards cover the shape
\* One dimension of size d cut into shards of size s: the last shard is not
\* empty and not larger than s, and the shards add up to d.
CoversExactly(num_shards, last_shard, d, s) ==
    /\ 1 <= last_shard
    /\ last_shard <= s
    /\ (num_shards - 1) * s + last_shard = d

\* C29: for a shape whose last dimension is at least 1, get_2d_shape has the
\* last dimension as width and height * width equal to the volume; for every
\* height and width of at least 1 and every shard size of at least 1, the
\* division has a last shard between 1 and the shard size and
\* (num_shards - 1) * shard + last_shard equal to the dimension, so the shards
\* hold every element once.
C29_ShardsCoverShape ==
    (sd_pc = "done" /\ sd_simple_shape # <<>>
     /\ sd_simple_shape[Len(sd_simple_shape)] >= 1) =>
        /\ sd_shape.width = sd_simple_shape[Len(sd_simple_shape)]
        /\ sd_shape.height * sd_shape.width = IntProduct(sd_simple_shape)
        /\ sd_shape.height >= 1
           => CoversExactly(sd_result.num_shards_height, sd_result.last_shard_height,
                            sd_shape.height, sd_shard_shape.height)
        /\ CoversExactly(sd_result.num_shards_width, sd_result.last_shard_width,
                         sd_shape.width, sd_shard_shape.width)
        /\ sd_shape.height >= 1
           => ((sd_result.num_shards_height - 1) * sd_shard_shape.height
                   + sd_result.last_shard_height)
              * ((sd_result.num_shards_width - 1) * sd_shard_shape.width
                   + sd_result.last_shard_width)
              = IntProduct(sd_simple_shape)

\* A 3 x 2 x 3 shape, 6 rows of 3, cut into shards of 4 x 2: two shards each
\* way, the last ones 2 high and 1 wide.
C29_Witness ==
    /\ sd_pc = "done"
    /\ sd_simple_shape = <<3, 2, 3>>
    /\ sd_shape = [height |-> 6, width |-> 3]
    /\ sd_shard_shape = [height |-> 4, width |-> 2]
    /\ sd_result = [num_shards_height |-> 2, last_shard_height |-> 2,
                    num_shards_width |-> 2, last_shard_width |-> 1]


\* ------------------------------------------------------ divisibility checks
\* The dimensions of the conversion break its divisibility assumption.
BreaksDivisibility ==
    \/ /\ cv_op = "block_sharded"
       /\ \/ cv_tensor.shape[1] % cv_params.num_channel_shards # 0
          \/ cv_tensor.shape[2] % cv_params.num_channel_shards # 0
    \/ /\ cv_op = "grouped"
       /\ cv_tensor.shape[1] % cv_params.num_groups # 0

\* C21: a block-sharded weight conversion whose out_channels or in_channels is
\* not divisible by num_channel_shards, and a grouped-weight conversion whose
\* out_channels is not divisible by (or is smaller than) num_groups, fails
\* with a precondition error and returns no tensor.
C21_DivisibilityChecked ==
    (cv_pc = "done" /\ BreaksDivisibility)
    => /\ ~cv_result.ok
       /\ cv_result.error \in {OutputChannelsDivisible, InputChannelsDivisible}


\* ------------------------------------------------------ block-sharded bias
\* C27: the block-sharded conversion of a bias [1, 1, 1, N] with any number of
\* channel shards yields a matrix [1, 1, 32, cols] in which every one of the N
\* input values is found in row 0, input element oc*w + k at column
\* oc*w_padded + k (w the shard width, w_padded its tile-padded width), and
\* every other position is zero.
C27_BiasEveryValueCopied ==
    (Converted("bias_block_sharded") /\ cv_tensor.shape[1] = 1
     /\ cv_tensor.shape[2] = 1 /\ cv_tensor.shape[3] = 1) =>
        \A i \in 1..Len(cv_matrix) :
            LET N == cv_tensor.shape[4]
                shards == cv_params.num_channel_shards
                w == N \div shards
                w_padded == CeilOf(w, TILE_WIDTH) * TILE_WIDTH
                matrix == cv_matrix[i].buf
                input == cv_tensor.buffers[i].data
                cols == cv_matrix[i].shape[4]
                Written == { oc * w_padded + k : oc \in 0..(shards - 1), k \in 0..(w - 1) }
            IN /\ cv_matrix[i].shape = <<1, 1, 32, cols>>
               /\ matrix.size = 32 * cols
               /\ \A n \in 0..(N - 1) :
                     \E oc \in 0..(shards - 1), k \in 0..(w - 1) :
                        /\ n = oc * w + k
                        /\ oc * w_padded + k < cols
                        /\ BufferAt(matrix, oc * w_padded + k) = input[n]
               /\ \A at \in (0..(matrix.size - 1)) \ Written : BufferAt(matrix, at) = 0


\* ------------------------------------------------------------ index remapping
\* The dimensions meet what the routine assumes of them.
RemapAssumptionsHold ==
    CASE cv_op = "tiled" -> TRUE
      [] cv_op = "special_padding" ->
            cv_params.in1_block_h * TILE_HEIGHT >= cv_tensor.shape[2] * cv_tensor.shape[4]
      [] cv_op = "block_sharded" ->
            /\ cv_tensor.shape[1] % cv_params.num_channel_shards = 0
            /\ cv_tensor.shape[2] % cv_params.num_channel_shards = 0
      [] cv_op = "grouped" -> cv_tensor.shape[1] % cv_params.num_groups = 0
      [] OTHER -> FALSE

\* C30: in the weight, special-padding, block-sharded and grouped routines,
\* under the assumption each makes of its dimensions, every destination index
\* written lies inside the output buffer, every source index read lies inside
\* the input, and no two source coordinates write the same destination: the
\* output holds as many written positions as the input has elements, and they
\* hold every input element.
C30_RemapInBoundsInjective ==
    (cv_pc = "done" /\ RemapAssumptionsHold
     /\ cv_tensor.layout = "ROW_MAJOR" /\ cv_tensor.dtype = "FLOAT32"
     /\ cv_tensor.storage \in {"OWNED", "BORROWED"}) =>
        /\ cv_result.ok
        /\ Len(cv_matrix) = Len(cv_tensor.buffers)
        /\ \A i \in 1..Len(cv_matrix) :
            LET matrix == cv_matrix[i].buf
                input == cv_tensor.buffers[i].data
            IN /\ ~matrix.oob
               /\ matrix.size = IntProduct(cv_matrix[i].shape)
               /\ DOMAIN matrix.elems \subseteq 0..(matrix.size - 1)
               /\ DOMAIN input = 0..(IntProduct(cv_tensor.shape) - 1)
               /\ Cardinality(DOMAIN matrix.elems) = IntProduct(cv_tensor.shape)
               /\ { matrix.elems[at] : at \in DOMAIN matrix.elems }
                    = { input[n] : n \in DOMAIN input }

\* A 1 x 32 x 1 x 2 weight went through the special-padding routine with a
\* block height of two tiles, which just covers its 32 * 2 rows per kernel row.
C30_Witness ==
    /\ Converted("special_padding")
    /\ cv_tensor.shape = <<1, 32, 1, 2>>
    /\ cv_params.in1_block_h = 2
    /\ Cardinality(DOMAIN cv_matrix[1].buf.elems) = 64
    /\ ~cv_matrix[1].buf.oob


\* ----------------------------------------------------- shards of a storage
InsertReturned ==
    st_op.name = "insert_buffer_and_shape_for_device" /\ st_result.ok

\* Everything of the tensor but the buffers and shapes its storage holds.
Attributes(t) ==
    <<t.storage, t.dtype, t.layout, t.tile, t.shape, t.s.strategy,
      IF t.storage = "MULTI_DEVICE" THEN t.s.ordered_device_ids ELSE <<>> >>

\* The slot the last call addressed: the device, or the buffer index.
Slot == IF st_tensor.storage = "MULTI_DEVICE" THEN st_op.target_device
        ELSE st_op.buffer_index

\* C24: an insert into multi-device (resp. multi-device host) storage sets the
\* buffer and shape of the target device (resp. buffer index) to those of the
\* shard and leaves every other buffer and shape, and the dtype, layout and
\* distribution configuration, as they were; whatever inserts were made, the
\* storage never holds more buffers than the devices or shards it was created
\* for.
C24_InsertSetsOneSlot ==
    (st_pc = "ready" /\ is_multi_device_tensor(st_tensor)) =>
        /\ InsertReturned =>
              /\ st_tensor.s.buffers[Slot] = st_op.shard.buffer
              /\ st_tensor.s.shapes[Slot] = st_op.shard.shape
              /\ DOMAIN st_tensor.s.buffers = DOMAIN st_prev.s.buffers \cup {Slot}
              /\ DOMAIN st_tensor.s.shapes = DOMAIN st_prev.s.shapes \cup {Slot}
              /\ \A other \in DOMAIN st_prev.s.buffers \ {Slot} :
                    /\ st_tensor.s.buffers[other] = st_prev.s.buffers[other]
                    /\ st_tensor.s.shapes[other] = st_prev.s.shapes[other]
        /\ (st_op.name = "insert_buffer_and_shape_for_device" /\ ~st_result.ok) =>
              st_tensor = st_prev
        /\ Attributes(st_tensor) = Attributes(st_prev)
        /\ st_tensor.storage = "MULTI_DEVICE" =>
              /\ DOMAIN st_tensor.s.buffers \subseteq Range(st_tensor.s.ordered_device_ids)
              /\ Cardinality(DOMAIN st_tensor.s.buffers)
                    <= Len(st_tensor.s.ordered_device_ids)
        /\ st_tensor.storage = "MULTI_DEVICE_HOST" =>
              DOMAIN st_tensor.s.buffers = DOMAIN st_prev.s.buffers

\* Storage created for devices 2 and 0: after an insert for device 2, an
\* insert for device 0 went through, and both buffers are held.
C24_Witness ==
    /\ InsertReturned
    /\ st_tensor.storage = "MULTI_DEVICE"
    /\ st_tensor.s.ordered_device_ids = <<2, 0>>
    /\ st_op.target_device = 0
    /\ st_inserts = 2
    /\ DOMAIN st_prev.s.buffers = {2}
    /\ st_tensor.s.buffers = (0 :> DeviceBuffer(3, 0)) @@ (2 :> DeviceBuffer(2, 2))
    /\ st_tensor.s.shapes = (0 :> <<3, 1>>) @@ (2 :> <<2, 1>>)

\* C25: get_devices on a MULTI_DEVICE tensor returns one device per entry of
\* ordered_device_ids, in that order, the i-th being the device of the buffer
\* held for the i-th device id; num_buffers_in_tensor returns the number of
\* buffers of the storage for the two multi-device kinds and 1 for Owned,
\* Borrowed and Device storage.
C25_DevicesInOrder ==
    /\ (st_op.name = "get_devices" /\ st_tensor.storage = "MULTI_DEVICE"
        /\ st_result.ok) =>
          LET ids == st_tensor.s.ordered_device_ids
          IN /\ Len(st_result.devices) = Len(ids)
             /\ \A i \in 1..Len(ids) :
                   st_result.devices[i] = st_tensor.s.buffers[ids[i]].device
    /\ st_op.name = "num_buffers_in_tensor" =>
          st_result.count =
              IF is_multi_device_tensor(st_tensor)
              THEN Cardinality(DOMAIN st_tensor.s.buffers)
              ELSE 1

\* get_devices on storage created for devices 2 and 0, both populated.
C25_Witness ==
    /\ st_op.name = "get_devices"
    /\ st_tensor.storage = "MULTI_DEVICE"
    /\ st_tensor.s.ordered_device_ids = <<2, 0>>
    /\ st_result = [ok |-> TRUE, devices |-> <<2, 0>>]

\* C28: after an insert for device d into multi-device storage (or at buffer
\* index i into multi-device host storage), get_shard_for_device with that
\* device (index) returns a tensor with the inserted buffer and shape, the
\* parent's dtype, layout and tile, and Device (resp. Owned) storage; for a
\* tensor with Owned, Borrowed or Device storage it returns the tensor itself.
C28_InsertThenGetShard ==
    st_op.name = "get_shard_for_device" =>
        /\ (st_tensor.storage = "MULTI_DEVICE" /\ st_inserted # NoInsert
            /\ st_op.target_device = st_inserted.target_device)
           => /\ st_result.ok
              /\ st_result.tensor =
                    [storage |-> "DEVICE", dtype |-> st_tensor.dtype,
                     layout |-> st_tensor.layout, tile |-> st_tensor.tile,
                     shape |-> st_inserted.shard.shape,
                     s |-> [buffer |-> st_inserted.shard.buffer]]
        /\ (st_tensor.storage = "MULTI_DEVICE_HOST" /\ st_inserted # NoInsert
            /\ st_op.buffer_index = st_inserted.buffer_index)
           => /\ st_result.ok
              /\ st_result.tensor =
                    [storage |-> "OWNED", dtype |-> st_tensor.dtype,
                     layout |-> st_tensor.layout, tile |-> st_tensor.tile,
                     shape |-> st_inserted.shard.shape,
                     s |-> [buffer |-> st_inserted.shard.buffer]]
        /\ st_tensor.storage \in {"OWNED", "BORROWED", "DEVICE"}
           => (st_result.ok /\ st_result.tensor = st_tensor)

\* A host shard was inserted at index 1 of two, and looked up again.
C28_Witness ==
    /\ st_op.name = "get_shard_for_device"
    /\ st_tensor.storage = "MULTI_DEVICE_HOST"
    /\ st_tensor.dtype = "FLOAT32"
    /\ st_op.buffer_index = 1
    /\ st_inserted # NoInsert
    /\ st_inserted.buffer_index = 1
    /\ st_inserted.shard = [storage |-> "OWNED", buffer |-> HostBuffer(3), shape |-> <<3, 1>>]
    /\ st_result.ok
    /\ st_result.tensor.shape = <<3, 1>>
    /\ st_result.tensor.dtype = "FLOAT32"


\* ---------------------------------------------------------- handle or fail
\* C22: a call that meets a storage kind it does not support throws, returns
\* nothing and modifies nothing: a layout conversion of a tensor with Device
\* storage, or of a multi-device tensor whose shards have Device storage (past
\* its checks, convert_tensor throws "Unsupported storage type"),
\* insert_buffer_and_shape_for_device on a tensor with Borrowed storage, and
\* get_devices on a tensor whose storage type is not MULTI_DEVICE.
C22_HandleOrFail ==
    /\ (cv_pc = "done" /\ cv_tensor.storage \in {"DEVICE", "MULTI_DEVICE"}) =>
          /\ ~cv_result.ok
          /\ cv_matrix = <<>>
          /\ (cv_trace # <<>> /\ cv_op # "depthwise") =>
                cv_result.error = UnsupportedStorageType
    /\ (st_op.name = "insert_buffer_and_shape_for_device"
        /\ st_prev.storage = "BORROWED") =>
          /\ st_result = Throws(UnsupportedStorageInsert)
          /\ st_tensor = st_prev
    /\ (st_op.name = "get_devices" /\ st_tensor.storage # "MULTI_DEVICE") =>
          st_result = Throws(NotMultiDevice)

\* A row-major float weight tensor with Device storage passes the checks of
\* the tiled conversion and is refused by convert_tensor.
C22_Witness ==
    /\ cv_pc = "done"
    /\ cv_op = "tiled"
    /\ cv_tensor.storage = "DEVICE"
    /\ cv_tensor.layout = "ROW_MAJOR"
    /\ cv_tensor.dtype = "FLOAT32"
    /\ cv_output_dtype = NoDataType
    /\ cv_trace = << <<"dispatch", "float">> >>
    /\ cv_result = [ok |-> FALSE, error |-> UnsupportedStorageType]


\* ------------------------------------------------------ inputs are not mutated
\* The steps of the three kinds of call.
CopyStep == pc = "start" /\ pc' = "copied"
TransformStep == tf_pc \in {"input", "loop"} /\ tf_pc' \in {"loop", "done"}
ConvertStep == cv_pc = "input" /\ cv_pc' = "done"

====
